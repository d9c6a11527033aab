------------------------------- MODULE SeedProofs ------------------------------
(***************************************************************************)
(* Theorems about Seed, for every set of other candidates, of titles of    *)
(* roles made by hand, and every number of runs and of requests: the       *)
(* script stopped anywhere and run again, beside requests, on a database   *)
(* that is new or used.  IInv says what a database holds whatever the      *)
(* statement the script is at, and what each statement has settled; the    *)
(* data the script writes are its constants, and the theorems are of them. *)
(***************************************************************************)
EXTENDS Seed, FiniteSetTheorems, WellFoundedInduction, TLAPS

-----------------------------------------------------------------------------
(***************************************************************************)
(* Ids.                                                                    *)
(***************************************************************************)
Bounded(used) == used \subseteq Nat /\ \E b \in Nat : \A id \in used : id =< b

\* The last of a bounded set of ids is at least each of them.
LEMMA LastIdIsLast ==
  ASSUME NEW used, Bounded(used)
  PROVE  lastId(used) \in Nat /\ \A id \in used : id =< lastId(used)
<1> DEFINE S == used \cup {0}
           T == {b \in Nat : \A id \in S : id =< b}
<1>1. S \subseteq Nat /\ 0 \in S /\ T \subseteq Nat /\ T # {}
  BY DEF Bounded
<1>2. PICK m \in T : \A y \in T : ~(<<y, m>> \in OpToRel(<, Nat))
  <2> HIDE DEF T
  <2> QED BY <1>1, WFMin, NatLessThanWellFounded
<1>3. \A y \in T : ~(y < m)
  BY <1>1, <1>2 DEF OpToRel
<1>4. m \in S
  <2> SUFFICES ASSUME m \notin S PROVE FALSE
    OBVIOUS
  <2>1. m - 1 \in T
    BY <1>1
  <2> QED BY <1>1, <1>3, <2>1
<1>5. Max(S) \in S /\ \A y \in S : Max(S) >= y
  BY <1>1, <1>4 DEF Max
<1> QED BY <1>1, <1>5 DEF lastId

-----------------------------------------------------------------------------
(***************************************************************************)
(* What the script says.                                                   *)
(***************************************************************************)
Words ==
  {"upsertUser", "findRole", "createRole", "findPeople", "findCandidate", "upsertProfile", "findApplications",
   "findInterviews", "findFeedback", "deleteAudit", "deleteApplications", "findRoleOf", "transaction"}
Accounts == {"recruiter", "interviewer1", "interviewer2", "candidate", "candidate2"}
Statements == [do : Words, of : Accounts \cup {Null}, title : Titles \cup {Null}]

\* A function on 1 .. k is a sequence of k.
LEMMA FunctionIsSeq ==
  ASSUME NEW S, NEW k \in Nat, NEW x \in [1 .. k -> S]
  PROVE  x \in Seq(S) /\ Len(x) = k
OBVIOUS

\* What a concatenation of statements has where.
LEMMA Concatenation ==
  ASSUME NEW s \in Seq(Statements), NEW t \in Seq(Statements), NEW u, u = s \o t
  PROVE  /\ u \in Seq(Statements) /\ Len(u) = Len(s) + Len(t)
         /\ \A n \in 1 .. Len(s) : u[n] = s[n]
         /\ \A n \in 1 .. Len(t) : u[Len(s) + n] = t[n]
OBVIOUS

\* A loop's statements, two for each row.
LEMMA TwoForEachIs ==
  ASSUME NEW rows, NEW k \in Nat, Len(rows) = k, \A n \in 1 .. k : rows[n].title \in Titles,
         NEW of \in Accounts \cup {Null}, NEW first \in Words, NEW second \in Words
  PROVE  LET loop == TwoForEach(rows, of, first, second)
         IN  /\ loop \in Seq(Statements) /\ Len(loop) = 2 * k
             /\ \A n \in 1 .. k : /\ loop[2 * n - 1] = Statement(first, of, rows[n].title)
                                  /\ loop[2 * n] = Statement(second, of, rows[n].title)
<1>1. \A n \in 1 .. 2 * k : (n + 1) \div 2 \in 1 .. k
  OBVIOUS
<1>2. \A n \in 1 .. k : /\ (2 * n - 1) \in 1 .. 2 * k /\ (2 * n - 1) % 2 = 1 /\ (2 * n - 1 + 1) \div 2 = n
                        /\ (2 * n) \in 1 .. 2 * k /\ (2 * n) % 2 # 1 /\ (2 * n + 1) \div 2 = n
  OBVIOUS
<1> DEFINE loop == TwoForEach(rows, of, first, second)
<1>3. \A n \in 1 .. 2 * k : loop[n] = Statement(IF n % 2 = 1 THEN first ELSE second, of, rows[(n + 1) \div 2].title)
  BY DEF TwoForEach
<1>4. \A n \in 1 .. 2 * k : loop[n] \in Statements
  <2> HIDE DEF loop
  <2> SUFFICES ASSUME NEW n \in 1 .. 2 * k PROVE loop[n] \in Statements
    OBVIOUS
  <2>1. rows[(n + 1) \div 2].title \in Titles
    BY <1>1
  <2>2. (IF n % 2 = 1 THEN first ELSE second) \in Words
    OBVIOUS
  <2>3. \A do \in Words, title \in Titles : Statement(do, of, title) \in Statements
    BY DEF Statement, Statements
  <2> QED BY <1>3, <2>1, <2>2, <2>3
<1>5. loop \in Seq(Statements) /\ Len(loop) = 2 * k
  <2>1. loop \in [1 .. 2 * k -> Statements]
    BY <1>4 DEF TwoForEach
  <2> HIDE DEF loop
  <2> QED BY <2>1
<1>6. \A n \in 1 .. k : /\ loop[2 * n - 1] = Statement(first, of, rows[n].title)
                        /\ loop[2 * n] = Statement(second, of, rows[n].title)
  <2> HIDE DEF loop
  <2> QED BY <1>2, <1>3
<1> QED BY <1>5, <1>6

\* The titles of the roles the script makes.
LEMMA TitlesAre == Titles = {"Backend", "Designer", "Manager"}
<1>1. Len(SeedRoles) = 3 /\ SeedRoles[1].title = "Backend" /\ SeedRoles[2].title = "Designer"
      /\ SeedRoles[3].title = "Manager"
  BY DEF SeedRoles
<1> QED BY <1>1 DEF Titles

\* The statements of the loop over the roles.
LEMMA SeedRolesIs ==
  /\ seedRoles \in Seq(Statements) /\ Len(seedRoles) = 6
  /\ seedRoles[1] = Statement("findRole", Null, "Backend")
  /\ seedRoles[2] = Statement("createRole", Null, "Backend")
  /\ seedRoles[3] = Statement("findRole", Null, "Designer")
  /\ seedRoles[4] = Statement("createRole", Null, "Designer")
  /\ seedRoles[5] = Statement("findRole", Null, "Manager")
  /\ seedRoles[6] = Statement("createRole", Null, "Manager")
<1>1. Len(SeedRoles) = 3 /\ SeedRoles[1].title = "Backend" /\ SeedRoles[2].title = "Designer"
      /\ SeedRoles[3].title = "Manager"
  BY DEF SeedRoles
<1>2. /\ \A n \in 1 .. 3 : SeedRoles[n].title \in Titles
      /\ Null \in Accounts \cup {Null} /\ "findRole" \in Words /\ "createRole" \in Words
  BY <1>1 DEF Titles, Words
<1>3. /\ seedRoles \in Seq(Statements) /\ Len(seedRoles) = 2 * 3
      /\ \A n \in 1 .. 3 : /\ seedRoles[2 * n - 1] = Statement("findRole", Null, SeedRoles[n].title)
                           /\ seedRoles[2 * n] = Statement("createRole", Null, SeedRoles[n].title)
  <2>1. Len(SeedRoles) = 3 /\ 3 \in Nat
    BY <1>1
  <2> QED BY <1>2, <2>1, TwoForEachIs DEF seedRoles
<1>4. 2 * 1 - 1 = 1 /\ 2 * 1 = 2 /\ 2 * 2 - 1 = 3 /\ 2 * 2 = 4 /\ 2 * 3 - 1 = 5 /\ 2 * 3 = 6
  OBVIOUS
<1> QED BY <1>1, <1>3, <1>4

\* What is planned for the two candidates.
LEMMA PlansAre ==
  /\ Seeded = {"candidate", "candidate2"}
  /\ SeedCandidates["candidate"].profile = TRUE /\ SeedCandidates["candidate2"].profile = FALSE
  /\ SeedCandidates["candidate"].applications = SeedApplications
  /\ SeedCandidates["candidate2"].applications = SeedOtherApplications
  /\ SeedCandidates["candidate"].interviews = SeedInterviews
  /\ SeedCandidates["candidate2"].interviews = <<>>
  /\ SeedCandidates["candidate"].timelines = SeedTimelines
  /\ SeedCandidates["candidate2"].timelines = NoTimelines
BY DEF Seeded, SeedCandidates

LEMMA ApplicationsAre ==
  /\ Len(SeedApplications) = 3 /\ Len(SeedOtherApplications) = 1
  /\ SeedApplications[1].title = "Backend" /\ SeedApplications[2].title = "Designer"
  /\ SeedApplications[3].title = "Manager" /\ SeedOtherApplications[1].title = "Manager"
BY DEF SeedApplications, SeedOtherApplications

\* The place before a candidate's first lookup, and their planned applications.
start(c) == IF c = "candidate" THEN 14 ELSE 26
plans(c) == SeedCandidates[c].applications

\* The statements of seedCandidateApplications.
LEMMA SeedCandidateApplicationsIs ==
  ASSUME NEW c \in Seeded
  PROVE  LET s == seedCandidateApplications(c)
         IN  /\ s \in Seq(Statements) /\ Len(s) = 5 + 2 * Len(plans(c))
             /\ s[1] = Statement("findApplications", c, Null)
             /\ s[2] = Statement("findInterviews", c, Null)
             /\ s[3] = Statement("findFeedback", c, Null)
             /\ s[4] = Statement("deleteAudit", c, Null)
             /\ s[5] = Statement("deleteApplications", c, Null)
             /\ \A n \in 1 .. Len(plans(c)) :
                  /\ s[4 + 2 * n] = Statement("findRoleOf", c, plans(c)[n].title)
                  /\ s[5 + 2 * n] = Statement("transaction", c, plans(c)[n].title)
<1> DEFINE first == <<Statement("findApplications", c, Null), Statement("findInterviews", c, Null),
                      Statement("findFeedback", c, Null), Statement("deleteAudit", c, Null),
                      Statement("deleteApplications", c, Null)>>
           loop == TwoForEach(plans(c), c, "findRoleOf", "transaction")
<1>1. /\ c \in Accounts /\ Len(plans(c)) \in Nat /\ \A n \in 1 .. Len(plans(c)) : plans(c)[n].title \in Titles
      /\ "findRoleOf" \in Words /\ "transaction" \in Words
  BY PlansAre, ApplicationsAre, TitlesAre DEF plans, Words, Accounts
<1>2. /\ loop \in Seq(Statements) /\ Len(loop) = 2 * Len(plans(c))
      /\ \A n \in 1 .. Len(plans(c)) : /\ loop[2 * n - 1] = Statement("findRoleOf", c, plans(c)[n].title)
                                       /\ loop[2 * n] = Statement("transaction", c, plans(c)[n].title)
  BY <1>1, TwoForEachIs
<1>3. first \in Seq(Statements) /\ Len(first) = 5
  <2>1. \A do \in Words : Statement(do, c, Null) \in Statements
    BY <1>1 DEF Statement, Statements
  <2>2. \A a, b, d, e, f \in Statements : <<a, b, d, e, f>> \in Seq(Statements)
    OBVIOUS
  <2>3. first \in Seq(Statements)
    BY <2>1, <2>2 DEF Words
  <2>4. Len(first) = 5
    OBVIOUS
  <2> QED BY <2>3, <2>4
<1>4. /\ first[1] = Statement("findApplications", c, Null)
      /\ first[2] = Statement("findInterviews", c, Null)
      /\ first[3] = Statement("findFeedback", c, Null)
      /\ first[4] = Statement("deleteAudit", c, Null)
      /\ first[5] = Statement("deleteApplications", c, Null)
  OBVIOUS
<1>5. first \in Seq(Statements) /\ loop \in Seq(Statements) /\ seedCandidateApplications(c) = first \o loop
  BY <1>2, <1>3 DEF seedCandidateApplications, plans
<1> HIDE DEF first, loop
<1>6. PICK u : u = seedCandidateApplications(c)
  OBVIOUS
<1>7. /\ u \in Seq(Statements) /\ Len(u) = Len(first) + Len(loop)
      /\ \A n \in 1 .. Len(first) : u[n] = first[n]
      /\ \A n \in 1 .. Len(loop) : u[Len(first) + n] = loop[n]
  BY <1>5, <1>6, Concatenation
<1>8. Len(u) = 5 + 2 * Len(plans(c)) /\ (\A n \in 1 .. 5 : u[n] = first[n])
      /\ (\A n \in 1 .. 2 * Len(plans(c)) : u[5 + n] = loop[n])
  BY <1>1, <1>2, <1>3, <1>7
<1>9. \A n \in 1 .. Len(plans(c)) : /\ (2 * n - 1) \in 1 .. 2 * Len(plans(c)) /\ 5 + (2 * n - 1) = 4 + 2 * n
                                    /\ (2 * n) \in 1 .. 2 * Len(plans(c))
  BY <1>1
<1>10. \A n \in 1 .. Len(plans(c)) : u[4 + 2 * n] = loop[2 * n - 1] /\ u[5 + 2 * n] = loop[2 * n]
  BY <1>8, <1>9
<1>11. u[1] = first[1] /\ u[2] = first[2] /\ u[3] = first[3] /\ u[4] = first[4] /\ u[5] = first[5]
  BY <1>8
<1> QED BY <1>2, <1>4, <1>6, <1>7, <1>8, <1>10, <1>11

\* The statements of a candidate's turn.
LEMMA SeedCandidateIs ==
  /\ seedCandidate("candidate") \in Seq(Statements) /\ seedCandidate("candidate2") \in Seq(Statements)
  /\ Len(seedCandidate("candidate")) = 13 /\ Len(seedCandidate("candidate2")) = 8
  /\ seedCandidate("candidate")[1] = Statement("findCandidate", "candidate", Null)
  /\ seedCandidate("candidate")[2] = Statement("upsertProfile", "candidate", Null)
  /\ seedCandidate("candidate2")[1] = Statement("findCandidate", "candidate2", Null)
  /\ \A n \in 1 .. 11 : seedCandidate("candidate")[2 + n] = seedCandidateApplications("candidate")[n]
  /\ \A n \in 1 .. 7 : seedCandidate("candidate2")[1 + n] = seedCandidateApplications("candidate2")[n]
<1>1. "candidate" \in Seeded /\ "candidate2" \in Seeded /\ Len(plans("candidate")) = 3 /\ Len(plans("candidate2")) = 1
  BY PlansAre, ApplicationsAre DEF plans
<1>2. \A c \in Seeded : /\ seedCandidateApplications(c) \in Seq(Statements)
                        /\ Len(seedCandidateApplications(c)) = 5 + 2 * Len(plans(c))
  <2> TAKE c \in Seeded
  <2> QED BY SeedCandidateApplicationsIs
<1>3. \A c \in Seeded : /\ Statement("findCandidate", c, Null) \in Statements
                        /\ Statement("upsertProfile", c, Null) \in Statements
  BY PlansAre DEF Statement, Statements, Words, Accounts
<1>4. ASSUME NEW x \in Statements
      PROVE  <<x>> \in Seq(Statements) /\ Len(<<x>>) = 1 /\ <<x>>[1] = x
  OBVIOUS
<1>5. PICK f1, f2, p, r1, r2 : /\ f1 = <<Statement("findCandidate", "candidate", Null)>>
                               /\ f2 = <<Statement("findCandidate", "candidate2", Null)>>
                               /\ p = <<Statement("upsertProfile", "candidate", Null)>>
                               /\ r1 = seedCandidateApplications("candidate")
                               /\ r2 = seedCandidateApplications("candidate2")
  OBVIOUS
<1>6. /\ f1 \in Seq(Statements) /\ f2 \in Seq(Statements) /\ p \in Seq(Statements)
      /\ r1 \in Seq(Statements) /\ r2 \in Seq(Statements)
  BY <1>1, <1>2, <1>3, <1>4, <1>5
<1>6a. Len(f1) = 1 /\ Len(f2) = 1 /\ Len(p) = 1 /\ Len(r1) = 11 /\ Len(r2) = 7
  <2>1. 5 + 2 * 3 = 11 /\ 5 + 2 * 1 = 7
    OBVIOUS
  <2>2. Len(r1) = 11 /\ Len(r2) = 7
    BY <1>1, <1>2, <1>5, <2>1
  <2>3. Len(f1) = 1 /\ Len(f2) = 1 /\ Len(p) = 1
    BY <1>5
  <2> QED BY <2>2, <2>3
<1>7. seedCandidate("candidate") = (f1 \o p) \o r1 /\ seedCandidate("candidate2") = (f2 \o <<>>) \o r2
  BY <1>5, PlansAre DEF seedCandidate
<1>8. f2 \o <<>> = f2
  BY <1>6
<1>9. PICK h, u1, u2 : h = f1 \o p /\ u1 = h \o r1 /\ u2 = f2 \o r2
  OBVIOUS
<1>10. seedCandidate("candidate") = u1 /\ seedCandidate("candidate2") = u2
  BY <1>7, <1>8, <1>9
<1>11. /\ h \in Seq(Statements) /\ Len(h) = Len(f1) + Len(p)
       /\ \A n \in 1 .. Len(f1) : h[n] = f1[n]
       /\ \A n \in 1 .. Len(p) : h[Len(f1) + n] = p[n]
  BY <1>6, <1>9, Concatenation
<1>12. /\ u1 \in Seq(Statements) /\ Len(u1) = Len(h) + Len(r1)
       /\ \A n \in 1 .. Len(h) : u1[n] = h[n]
       /\ \A n \in 1 .. Len(r1) : u1[Len(h) + n] = r1[n]
  BY <1>6, <1>9, <1>11, Concatenation
<1>13. /\ u2 \in Seq(Statements) /\ Len(u2) = Len(f2) + Len(r2)
       /\ \A n \in 1 .. Len(f2) : u2[n] = f2[n]
       /\ \A n \in 1 .. Len(r2) : u2[Len(f2) + n] = r2[n]
  BY <1>6, <1>9, Concatenation
<1>14. Len(h) = 2 /\ h[1] = f1[1] /\ h[2] = p[1]
  BY <1>6a, <1>11
<1>15. Len(u1) = 13 /\ (\A n \in 1 .. 2 : u1[n] = h[n]) /\ (\A n \in 1 .. 11 : u1[2 + n] = r1[n])
  BY <1>6a, <1>12, <1>14
<1>16. Len(u2) = 8 /\ (\A n \in 1 .. 1 : u2[n] = f2[n]) /\ (\A n \in 1 .. 7 : u2[1 + n] = r2[n])
  BY <1>6a, <1>13
<1>17. u1[1] = f1[1] /\ u1[2] = p[1] /\ u2[1] = f2[1]
  BY <1>14, <1>15, <1>16
<1>18. /\ f1[1] = Statement("findCandidate", "candidate", Null)
       /\ f2[1] = Statement("findCandidate", "candidate2", Null)
       /\ p[1] = Statement("upsertProfile", "candidate", Null)
  BY <1>5
<1> QED BY <1>5, <1>10, <1>12, <1>13, <1>15, <1>16, <1>17, <1>18

\* The accounts of the script, and what each is.
LEMMA AccountsAre ==
  /\ Len(SeedAccounts) = 5 /\ DOMAIN SeedAccounts = 1 .. 5 /\ \A n \in 1 .. 5 : SeedAccounts[n] \in Accounts
  /\ DOMAIN seedRole = Accounts
  /\ \A u \in Accounts : \E n \in 1 .. 5 : u = SeedAccounts[n]
  /\ \A m, n \in 1 .. 5 : SeedAccounts[m] = SeedAccounts[n] => m = n
<1>1. /\ SeedAccounts[1] = "recruiter" /\ SeedAccounts[2] = "interviewer1" /\ SeedAccounts[3] = "interviewer2"
      /\ SeedAccounts[4] = "candidate" /\ SeedAccounts[5] = "candidate2"
      /\ Len(SeedAccounts) = 5 /\ DOMAIN SeedAccounts = 1 .. 5
  BY DEF SeedAccounts
<1>2. DOMAIN seedRole = Accounts
  BY DEF seedRole, Accounts
<1> QED BY <1>1, <1>2 DEF Accounts

\* main, part by part.
LEMMA MainIs ==
  /\ Len(main) = 33
  /\ \A n \in 1 .. 5 : main[n] = Statement("upsertUser", SeedAccounts[n], Null)
  /\ \A n \in 1 .. 6 : main[5 + n] = seedRoles[n]
  /\ main[12] = Statement("findPeople", Null, Null)
  /\ \A n \in 1 .. 13 : main[12 + n] = seedCandidate("candidate")[n]
  /\ \A n \in 1 .. 8 : main[25 + n] = seedCandidate("candidate2")[n]
<1>1. PICK a, r, p, c1, c2, m1, m2, m3, m4 :
        /\ a = [n \in 1 .. Len(SeedAccounts) |-> Statement("upsertUser", SeedAccounts[n], Null)]
        /\ r = seedRoles /\ p = <<Statement("findPeople", Null, Null)>>
        /\ c1 = seedCandidate("candidate") /\ c2 = seedCandidate("candidate2")
        /\ m1 = a \o r /\ m2 = m1 \o p /\ m3 = m2 \o c1 /\ m4 = m3 \o c2
  OBVIOUS
<1>2. main = m4
  BY <1>1 DEF main
<1>3. a \in Seq(Statements)
  <2>1. \A n \in 1 .. 5 : Statement("upsertUser", SeedAccounts[n], Null) \in Statements
    BY AccountsAre DEF Statement, Statements, Words
  <2>2. a \in [1 .. 5 -> Statements]
    BY <1>1, <2>1, AccountsAre
  <2> QED BY <2>2, FunctionIsSeq
<1>4. p \in Seq(Statements)
  <2>1. Statement("findPeople", Null, Null) \in Statements
    BY DEF Statement, Statements, Words
  <2> QED BY <1>1, <2>1
<1>5. r \in Seq(Statements) /\ c1 \in Seq(Statements) /\ c2 \in Seq(Statements)
  BY <1>1, SeedRolesIs, SeedCandidateIs
<1>6. /\ m1 \in Seq(Statements) /\ Len(m1) = Len(a) + Len(r)
      /\ \A n \in 1 .. Len(a) : m1[n] = a[n]
      /\ \A n \in 1 .. Len(r) : m1[Len(a) + n] = r[n]
  BY <1>1, <1>3, <1>5, Concatenation
<1>7. /\ m2 \in Seq(Statements) /\ Len(m2) = Len(m1) + Len(p)
      /\ \A n \in 1 .. Len(m1) : m2[n] = m1[n]
      /\ \A n \in 1 .. Len(p) : m2[Len(m1) + n] = p[n]
  BY <1>1, <1>4, <1>6, Concatenation
<1>8. /\ m3 \in Seq(Statements) /\ Len(m3) = Len(m2) + Len(c1)
      /\ \A n \in 1 .. Len(m2) : m3[n] = m2[n]
      /\ \A n \in 1 .. Len(c1) : m3[Len(m2) + n] = c1[n]
  BY <1>1, <1>5, <1>7, Concatenation
<1>9. /\ Len(m4) = Len(m3) + Len(c2)
      /\ \A n \in 1 .. Len(m3) : m4[n] = m3[n]
      /\ \A n \in 1 .. Len(c2) : m4[Len(m3) + n] = c2[n]
  BY <1>1, <1>5, <1>8, Concatenation
<1>10. Len(a) = 5 /\ (\A n \in 1 .. 5 : a[n] = Statement("upsertUser", SeedAccounts[n], Null))
  BY <1>1, AccountsAre
<1>11. Len(r) = 6
  BY <1>1, SeedRolesIs
<1>12. Len(p) = 1 /\ p[1] = Statement("findPeople", Null, Null)
  BY <1>1
<1>13. Len(c1) = 13 /\ Len(c2) = 8
  BY <1>1, SeedCandidateIs
<1>14. Len(m1) = 11 /\ (\A n \in 1 .. 5 : m1[n] = a[n]) /\ (\A n \in 1 .. 6 : m1[5 + n] = r[n])
  BY <1>6, <1>10, <1>11
<1>15. Len(m2) = 12 /\ (\A n \in 1 .. 11 : m2[n] = m1[n]) /\ m2[12] = p[1]
  <2>1. 1 \in 1 .. 1 /\ 11 + 1 = 12
    OBVIOUS
  <2> QED BY <1>7, <1>12, <1>14, <2>1
<1>16. Len(m3) = 25 /\ (\A n \in 1 .. 12 : m3[n] = m2[n]) /\ (\A n \in 1 .. 13 : m3[12 + n] = c1[n])
  BY <1>8, <1>13, <1>15
<1>17. Len(m4) = 33 /\ (\A n \in 1 .. 25 : m4[n] = m3[n]) /\ (\A n \in 1 .. 8 : m4[25 + n] = c2[n])
  BY <1>9, <1>13, <1>16
<1>18. /\ \A n \in 1 .. 5 : m4[n] = a[n]
       /\ \A n \in 1 .. 6 : m4[5 + n] = r[n]
       /\ m4[12] = p[1]
       /\ \A n \in 1 .. 13 : m4[12 + n] = c1[n]
  BY <1>14, <1>15, <1>16, <1>17
<1> QED BY <1>1, <1>2, <1>10, <1>12, <1>17, <1>18

\* What a statement is, by its place.
LEMMA ScriptIs ==
  /\ Len(main) = 33
  /\ \A n \in 1 .. 5 : main[n] = Statement("upsertUser", SeedAccounts[n], Null)
  /\ \A n \in 1 .. 3 : /\ main[4 + 2 * n] = Statement("findRole", Null, SeedRoles[n].title)
                       /\ main[5 + 2 * n] = Statement("createRole", Null, SeedRoles[n].title)
  /\ main[12] = Statement("findPeople", Null, Null)
  /\ main[13] = Statement("findCandidate", "candidate", Null)
  /\ main[14] = Statement("upsertProfile", "candidate", Null)
  /\ main[26] = Statement("findCandidate", "candidate2", Null)
  /\ \A c \in Seeded :
       /\ main[start(c) + 1] = Statement("findApplications", c, Null)
       /\ main[start(c) + 2] = Statement("findInterviews", c, Null)
       /\ main[start(c) + 3] = Statement("findFeedback", c, Null)
       /\ main[start(c) + 4] = Statement("deleteAudit", c, Null)
       /\ main[start(c) + 5] = Statement("deleteApplications", c, Null)
       /\ \A n \in 1 .. Len(plans(c)) :
            /\ main[start(c) + 4 + 2 * n] = Statement("findRoleOf", c, plans(c)[n].title)
            /\ main[start(c) + 5 + 2 * n] = Statement("transaction", c, plans(c)[n].title)
<1>1. \A n \in 1 .. 3 : /\ main[4 + 2 * n] = Statement("findRole", Null, SeedRoles[n].title)
                        /\ main[5 + 2 * n] = Statement("createRole", Null, SeedRoles[n].title)
  <2>1. SeedRoles[1].title = "Backend" /\ SeedRoles[2].title = "Designer" /\ SeedRoles[3].title = "Manager"
    BY DEF SeedRoles
  <2>2. /\ main[6] = seedRoles[1] /\ main[7] = seedRoles[2] /\ main[8] = seedRoles[3]
        /\ main[9] = seedRoles[4] /\ main[10] = seedRoles[5] /\ main[11] = seedRoles[6]
    <3>1. \A n \in 1 .. 6 : main[5 + n] = seedRoles[n]
      BY MainIs
    <3>2. 5 + 1 = 6 /\ 5 + 2 = 7 /\ 5 + 3 = 8 /\ 5 + 4 = 9 /\ 5 + 5 = 10 /\ 5 + 6 = 11
      OBVIOUS
    <3> QED BY <3>1, <3>2
  <2>3. 4 + 2 * 1 = 6 /\ 5 + 2 * 1 = 7 /\ 4 + 2 * 2 = 8 /\ 5 + 2 * 2 = 9 /\ 4 + 2 * 3 = 10 /\ 5 + 2 * 3 = 11
    OBVIOUS
  <2>4. \A n \in 1 .. 3 : n = 1 \/ n = 2 \/ n = 3
    OBVIOUS
  <2> QED BY <2>1, <2>2, <2>3, <2>4, SeedRolesIs
<1>2. /\ main[13] = Statement("findCandidate", "candidate", Null)
      /\ main[14] = Statement("upsertProfile", "candidate", Null)
      /\ main[26] = Statement("findCandidate", "candidate2", Null)
  <2>1. main[12 + 1] = seedCandidate("candidate")[1] /\ main[12 + 2] = seedCandidate("candidate")[2]
        /\ main[25 + 1] = seedCandidate("candidate2")[1]
    BY MainIs
  <2>2. 12 + 1 = 13 /\ 12 + 2 = 14 /\ 25 + 1 = 26
    OBVIOUS
  <2> QED BY <2>1, <2>2, SeedCandidateIs
<1>3. \A c \in Seeded : \A n \in 1 .. 5 + 2 * Len(plans(c)) : main[start(c) + n] = seedCandidateApplications(c)[n]
  <2>1. \A n \in 1 .. 11 : main[14 + n] = seedCandidateApplications("candidate")[n]
    <3> TAKE n \in 1 .. 11
    <3>1. 2 + n \in 1 .. 13 /\ 12 + (2 + n) = 14 + n
      OBVIOUS
    <3>2. main[12 + (2 + n)] = seedCandidate("candidate")[2 + n]
      BY <3>1, MainIs
    <3> QED BY <3>1, <3>2, SeedCandidateIs
  <2>2. \A n \in 1 .. 7 : main[26 + n] = seedCandidateApplications("candidate2")[n]
    <3> TAKE n \in 1 .. 7
    <3>1. 1 + n \in 1 .. 8 /\ 25 + (1 + n) = 26 + n
      OBVIOUS
    <3>2. main[25 + (1 + n)] = seedCandidate("candidate2")[1 + n]
      BY <3>1, MainIs
    <3> QED BY <3>1, <3>2, SeedCandidateIs
  <2>3. /\ 5 + 2 * Len(plans("candidate")) = 11 /\ start("candidate") = 14
        /\ 5 + 2 * Len(plans("candidate2")) = 7 /\ start("candidate2") = 26
    BY PlansAre, ApplicationsAre DEF plans, start
  <2> SUFFICES ASSUME NEW c \in Seeded, NEW n \in 1 .. 5 + 2 * Len(plans(c))
               PROVE  main[start(c) + n] = seedCandidateApplications(c)[n]
    OBVIOUS
  <2>4. c = "candidate" \/ c = "candidate2"
    BY PlansAre
  <2>5. CASE c = "candidate"
    BY <2>1, <2>3, <2>5
  <2>6. CASE c = "candidate2"
    BY <2>2, <2>3, <2>6
  <2> QED BY <2>4, <2>5, <2>6
<1>4. ASSUME NEW c \in Seeded
      PROVE  /\ main[start(c) + 1] = Statement("findApplications", c, Null)
             /\ main[start(c) + 2] = Statement("findInterviews", c, Null)
             /\ main[start(c) + 3] = Statement("findFeedback", c, Null)
             /\ main[start(c) + 4] = Statement("deleteAudit", c, Null)
             /\ main[start(c) + 5] = Statement("deleteApplications", c, Null)
             /\ \A n \in 1 .. Len(plans(c)) :
                  /\ main[start(c) + 4 + 2 * n] = Statement("findRoleOf", c, plans(c)[n].title)
                  /\ main[start(c) + 5 + 2 * n] = Statement("transaction", c, plans(c)[n].title)
  <2>1. Len(plans(c)) \in Nat /\ start(c) \in Nat
    BY PlansAre, ApplicationsAre DEF plans, start
  <2>2. \A n \in 1 .. 5 : n \in 1 .. 5 + 2 * Len(plans(c))
    BY <2>1
  <2>3. \A n \in 1 .. Len(plans(c)) : /\ 4 + 2 * n \in 1 .. 5 + 2 * Len(plans(c))
                                          /\ start(c) + (4 + 2 * n) = start(c) + 4 + 2 * n
                                      /\ 5 + 2 * n \in 1 .. 5 + 2 * Len(plans(c))
                                         /\ start(c) + (5 + 2 * n) = start(c) + 5 + 2 * n
    BY <2>1
  <2>4. \A n \in 1 .. 5 + 2 * Len(plans(c)) : main[start(c) + n] = seedCandidateApplications(c)[n]
    BY <1>3
  <2>5. \A n \in 1 .. 5 : main[start(c) + n] = seedCandidateApplications(c)[n]
    BY <2>2, <2>4
  <2>6. \A n \in 1 .. Len(plans(c)) : /\ main[start(c) + 4 + 2 * n] = seedCandidateApplications(c)[4 + 2 * n]
                                      /\ main[start(c) + 5 + 2 * n] = seedCandidateApplications(c)[5 + 2 * n]
    BY <2>3, <2>4
  <2>7. 1 \in 1 .. 5 /\ 2 \in 1 .. 5 /\ 3 \in 1 .. 5 /\ 4 \in 1 .. 5 /\ 5 \in 1 .. 5
    OBVIOUS
  <2> QED BY <2>5, <2>6, <2>7, SeedCandidateApplicationsIs
<1> QED BY <1>1, <1>2, <1>4, MainIs

\* The places, by what is awaited there.
LEMMA EveryPlace ==
  ASSUME NEW n \in 1 .. 33
  PROVE  \/ n \in 1 .. 5 \/ n \in {12, 13, 14, 26}
         \/ \E k \in 1 .. 3 : n = 4 + 2 * k \/ n = 5 + 2 * k
         \/ \E c \in Seeded : \/ n \in start(c) + 1 .. start(c) + 5
                              \/ \E k \in 1 .. Len(plans(c)) : n = start(c) + 4 + 2 * k \/ n = start(c) + 5 + 2 * k
<1>1. /\ start("candidate") = 14 /\ start("candidate2") = 26 /\ Seeded = {"candidate", "candidate2"}
      /\ Len(plans("candidate")) = 3 /\ Len(plans("candidate2")) = 1
  BY PlansAre, ApplicationsAre DEF start, plans
<1>2. CASE n \in 1 .. 14
  <2>1. n \in 1 .. 5 \/ n \in {12, 13, 14} \/ n = 4 + 2 * 1 \/ n = 5 + 2 * 1 \/ n = 4 + 2 * 2 \/ n = 5 + 2 * 2
        \/ n = 4 + 2 * 3 \/ n = 5 + 2 * 3
    BY <1>2
  <2> QED BY <2>1
<1>3. CASE n \in 15 .. 25
  <2>1. \/ n \in 14 + 1 .. 14 + 5 \/ n = 14 + 4 + 2 * 1 \/ n = 14 + 5 + 2 * 1 \/ n = 14 + 4 + 2 * 2 \/ n = 14 + 5 + 2 * 2
        \/ n = 14 + 4 + 2 * 3 \/ n = 14 + 5 + 2 * 3
    BY <1>3
  <2>2. \/ n \in start("candidate") + 1 .. start("candidate") + 5
        \/ \E k \in 1 .. Len(plans("candidate")) : n = start("candidate") + 4 + 2 * k
           \/ n = start("candidate") + 5 + 2 * k
    <3>1. 1 \in 1 .. 3 /\ 2 \in 1 .. 3 /\ 3 \in 1 .. 3
      OBVIOUS
    <3>2. n \in 14 + 1 .. 14 + 5 \/ \E k \in 1 .. 3 : n = 14 + 4 + 2 * k \/ n = 14 + 5 + 2 * k
      BY <2>1, <3>1
    <3> QED BY <1>1, <3>2
  <2>3. "candidate" \in Seeded
    BY <1>1
  <2> QED BY <2>2, <2>3
<1>4. CASE n \in 26 .. 33
  <2>1. n = 26 \/ n \in 26 + 1 .. 26 + 5 \/ n = 26 + 4 + 2 * 1 \/ n = 26 + 5 + 2 * 1
    BY <1>4
  <2>2. \/ n = 26 \/ n \in start("candidate2") + 1 .. start("candidate2") + 5
        \/ \E k \in 1 .. Len(plans("candidate2")) : n = start("candidate2") + 4 + 2 * k
           \/ n = start("candidate2") + 5 + 2 * k
    <3>1. 1 \in 1 .. 1
      OBVIOUS
    <3>2. n = 26 \/ n \in 26 + 1 .. 26 + 5 \/ \E k \in 1 .. 1 : n = 26 + 4 + 2 * k \/ n = 26 + 5 + 2 * k
      BY <2>1, <3>1
    <3> QED BY <1>1, <3>2
  <2>3. "candidate2" \in Seeded
    BY <1>1
  <2> QED BY <2>2, <2>3
<1> QED BY <1>2, <1>3, <1>4

\* What a statement's kind says of its place.
LEMMA PlaceOf ==
  ASSUME NEW n \in 1 .. 33
  PROVE  /\ main[n].do = "upsertUser" => n \in 1 .. 5 /\ main[n].of = SeedAccounts[n]
         /\ main[n].do = "findRole" => \E k \in 1 .. 3 : n = 4 + 2 * k /\ main[n].title = SeedRoles[k].title
         /\ main[n].do = "createRole" => \E k \in 1 .. 3 : n = 5 + 2 * k /\ main[n].title = SeedRoles[k].title
         /\ main[n].do = "findPeople" => n = 12
         /\ main[n].do = "findCandidate" => n \in {13, 26} /\ main[n].of \in Seeded
         /\ main[n].do = "upsertProfile" => n = 14 /\ main[n].of = "candidate"
         /\ main[n].do = "findApplications" => main[n].of \in Seeded /\ n = start(main[n].of) + 1
         /\ main[n].do = "findInterviews" => main[n].of \in Seeded /\ n = start(main[n].of) + 2
         /\ main[n].do = "findFeedback" => main[n].of \in Seeded /\ n = start(main[n].of) + 3
         /\ main[n].do = "deleteAudit" => main[n].of \in Seeded /\ n = start(main[n].of) + 4
         /\ main[n].do = "deleteApplications" => main[n].of \in Seeded /\ n = start(main[n].of) + 5
         /\ main[n].do = "findRoleOf" =>
              /\ main[n].of \in Seeded
              /\ \E k \in 1 .. Len(plans(main[n].of)) :
                   n = start(main[n].of) + 4 + 2 * k /\ main[n].title = plans(main[n].of)[k].title
         /\ main[n].do = "transaction" =>
              /\ main[n].of \in Seeded
              /\ \E k \in 1 .. Len(plans(main[n].of)) :
                   n = start(main[n].of) + 5 + 2 * k /\ main[n].title = plans(main[n].of)[k].title
<1>0. \A do, of, title : Statement(do, of, title).do = do /\ Statement(do, of, title).of = of
      /\ Statement(do, of, title).title = title
  BY DEF Statement
<1>1. CASE n \in 1 .. 5
  <2>1. main[n].do = "upsertUser" /\ main[n].of = SeedAccounts[n]
    BY <1>0, <1>1, ScriptIs
  <2> QED BY <1>1, <2>1
<1>2. CASE n \in {12, 13, 14, 26}
  <2>1. CASE n = 12
    <3>1. main[n].do = "findPeople"
      BY <1>0, <2>1, ScriptIs
    <3> QED BY <2>1, <3>1
  <2>2. CASE n = 14
    <3>1. main[n].do = "upsertProfile" /\ main[n].of = "candidate"
      BY <1>0, <2>2, ScriptIs
    <3> QED BY <2>2, <3>1
  <2>3. CASE n = 13 \/ n = 26
    <3>1. main[n].do = "findCandidate" /\ main[n].of \in Seeded
      BY <1>0, <2>3, ScriptIs, PlansAre
    <3> QED BY <2>3, <3>1
  <2> QED BY <1>2, <2>1, <2>2, <2>3
<1>3. ASSUME NEW k \in 1 .. 3, n = 4 + 2 * k \/ n = 5 + 2 * k
      PROVE  \/ main[n].do = "findRole" /\ n = 4 + 2 * k /\ main[n].title = SeedRoles[k].title
             \/ main[n].do = "createRole" /\ n = 5 + 2 * k /\ main[n].title = SeedRoles[k].title
  BY <1>0, <1>3, ScriptIs
<1>4. ASSUME NEW c \in Seeded, n \in start(c) + 1 .. start(c) + 5
      PROVE  /\ main[n].of \in Seeded
             /\ \/ main[n].do = "findApplications" /\ n = start(main[n].of) + 1
                \/ main[n].do = "findInterviews" /\ n = start(main[n].of) + 2
                \/ main[n].do = "findFeedback" /\ n = start(main[n].of) + 3
                \/ main[n].do = "deleteAudit" /\ n = start(main[n].of) + 4
                \/ main[n].do = "deleteApplications" /\ n = start(main[n].of) + 5
  <2>1. n = start(c) + 1 \/ n = start(c) + 2 \/ n = start(c) + 3 \/ n = start(c) + 4 \/ n = start(c) + 5
    BY <1>4 DEF start
  <2>2. /\ main[start(c) + 1] = Statement("findApplications", c, Null)
        /\ main[start(c) + 2] = Statement("findInterviews", c, Null)
        /\ main[start(c) + 3] = Statement("findFeedback", c, Null)
        /\ main[start(c) + 4] = Statement("deleteAudit", c, Null)
        /\ main[start(c) + 5] = Statement("deleteApplications", c, Null)
    BY ScriptIs
  <2>3. main[n].of = c
    BY <1>0, <2>1, <2>2
  <2> QED BY <1>0, <2>1, <2>2, <2>3
<1>5. ASSUME NEW c \in Seeded, NEW k \in 1 .. Len(plans(c)), n = start(c) + 4 + 2 * k \/ n = start(c) + 5 + 2 * k
      PROVE  main[n].of = c /\ main[n].title = plans(c)[k].title
             /\ \/ main[n].do = "findRoleOf" /\ n = start(c) + 4 + 2 * k
                \/ main[n].do = "transaction" /\ n = start(c) + 5 + 2 * k
  <2>1. /\ main[start(c) + 4 + 2 * k] = Statement("findRoleOf", c, plans(c)[k].title)
        /\ main[start(c) + 5 + 2 * k] = Statement("transaction", c, plans(c)[k].title)
    BY ScriptIs
  <2>2. \/ main[n] = Statement("findRoleOf", c, plans(c)[k].title) /\ n = start(c) + 4 + 2 * k
        \/ main[n] = Statement("transaction", c, plans(c)[k].title) /\ n = start(c) + 5 + 2 * k
    BY <1>5, <2>1
  <2> QED BY <1>0, <2>2
<1>6. CASE \E k \in 1 .. 3 : n = 4 + 2 * k \/ n = 5 + 2 * k
  <2> PICK k \in 1 .. 3 : n = 4 + 2 * k \/ n = 5 + 2 * k
    BY <1>6
  <2>1. CASE main[n].do = "findRole" /\ n = 4 + 2 * k /\ main[n].title = SeedRoles[k].title
    BY <2>1
  <2>2. CASE main[n].do = "createRole" /\ n = 5 + 2 * k /\ main[n].title = SeedRoles[k].title
    BY <2>2
  <2> QED BY <1>3, <2>1, <2>2
<1>7. CASE \E c \in Seeded : n \in start(c) + 1 .. start(c) + 5
  BY <1>4, <1>7
<1>8. CASE \E c \in Seeded : \E k \in 1 .. Len(plans(c)) : n = start(c) + 4 + 2 * k \/ n = start(c) + 5 + 2 * k
  <2>1. PICK c \in Seeded : \E k \in 1 .. Len(plans(c)) : n = start(c) + 4 + 2 * k \/ n = start(c) + 5 + 2 * k
    BY <1>8
  <2>2. PICK k \in 1 .. Len(plans(c)) : n = start(c) + 4 + 2 * k \/ n = start(c) + 5 + 2 * k
    BY <2>1
  <2>3. main[n].of = c /\ main[n].title = plans(c)[k].title
    BY <1>5, <2>2
  <2>4. CASE main[n].do = "findRoleOf" /\ n = start(c) + 4 + 2 * k
    BY <2>3, <2>4
  <2>5. CASE main[n].do = "transaction" /\ n = start(c) + 5 + 2 * k
    BY <2>3, <2>5
  <2> QED BY <1>5, <2>2, <2>4, <2>5
<1> QED BY <1>1, <1>2, <1>6, <1>7, <1>8, EveryPlace

-----------------------------------------------------------------------------
(***************************************************************************)
(* The inductive invariant.                                                *)
(***************************************************************************)
Stages == {"APPLIED", "SCREEN", "INTERVIEW", "OFFER"}
Statuses == {"ACTIVE", "REJECTED"}
HistoryRows == [stage : Stages, status : Statuses, overridden : BOOLEAN]
RoleRows == [id : Nat, title : Titles, status : {"OPEN", "CLOSED"}]
ApplicationRows ==
  [id : Nat, candidate : Candidates, role : Nat, status : Statuses, stage : Stages, history : Seq(HistoryRows)]
InterviewRows == [id : Nat, app : Nat, panel : SUBSET Accounts]
FeedbackRows == [id : Nat, round : Nat, author : Accounts]
Entry(e) ==
  /\ e.entityType \in {"APPLICATION", "INTERVIEW", "FEEDBACK"} /\ e.entityId \in Nat
  /\ e.by \in {"script", "request", "beside"}

Types ==
  /\ account \in [Accounts -> {"RECRUITER", "INTERVIEWER", "CANDIDATE", Null}]
  /\ profile \in [Seeded -> {Null, "seeded", "patched"}]
  /\ role \subseteq RoleRows /\ application \subseteq ApplicationRows
  /\ interview \subseteq InterviewRows /\ feedback \subseteq FeedbackRows
  /\ \A e \in auditLog : Entry(e)
  /\ run \in {"never", "running", "complete", "failed", "crashed"} /\ at \in Nat /\ found \in Nat
  /\ doomed \in [applications : SUBSET Nat, interviews : SUBSET Nat, feedback : SUBSET Nat]
  /\ disturbed \in BOOLEAN

\* A row is known by its id,
Keyed(rows) == \A x, y \in rows : x.id = y.id => x = y
Keys == Keyed(role) /\ Keyed(application) /\ Keyed(interview) /\ Keyed(feedback)

\* names rows that are there,
References ==
  /\ \A a \in application : a.role \in ids(role)
  /\ \A i \in interview : i.app \in ids(application)
  /\ \A f \in feedback : f.round \in ids(interview)

\* and is where its history leaves it.
Told(a) == a.history # <<>> /\ Last(a.history).stage = a.stage /\ Last(a.history).status = a.status
Histories == \A a \in application : Told(a)

\* An id is given out once.
Bounds ==
  /\ Bounded(ids(application) \cup named("APPLICATION") \cup doomed.applications)
  /\ Bounded(ids(interview) \cup named("INTERVIEW") \cup doomed.interviews)
  /\ Bounded(ids(feedback) \cup named("FEEDBACK") \cup doomed.feedback)
  /\ Bounded(ids(role) \cup {found})

applicationsIds(c) == ids(applicationsOf(c))
roundsIds(c) == ids(roundsOf(applicationsIds(c)))
feedbackIds(c) == ids(feedbackOf(roundsIds(c)))

\* What is doomed is the candidate's whose turn it is,
Collecting(c) == run = "running" /\ at \in start(c) + 2 .. start(c) + 4
Places ==
  /\ IF run = "running" THEN at \in 1 .. 34 ELSE at = 0
  /\ (\A c \in Seeded : ~Collecting(c)) => doomed = NothingDoomed
  /\ \A c \in Seeded : Collecting(c) =>
       /\ doomed.applications \subseteq applicationsIds(c)
       /\ doomed.interviews \subseteq roundsIds(c)
       /\ doomed.feedback \subseteq feedbackIds(c)

\* and what there is about the rest of theirs was written beside the script.
Clearing(c) == run = "running" /\ at \in start(c) + 2 .. start(c) + 5
Beside(type, id) == \A e \in auditLog : e.entityType = type /\ e.entityId = id => e.by = "beside"
Unseen(c) ==
  /\ \A a \in application :
       a.candidate = c /\ a.id \notin doomed.applications => Beside("APPLICATION", a.id)
  /\ \A i \in interview :
       /\ i.app \in applicationsIds(c)
       /\ at = start(c) + 2 => i.app \notin doomed.applications
       /\ at \in {start(c) + 3, start(c) + 4} => i.id \notin doomed.interviews
       => Beside("INTERVIEW", i.id)
  /\ \A i \in interview, f \in feedback :
       /\ i.app \in applicationsIds(c) /\ f.round = i.id
       /\ at = start(c) + 2 => i.app \notin doomed.applications
       /\ at = start(c) + 3 => i.id \notin doomed.interviews
       /\ at = start(c) + 4 => f.id \notin doomed.feedback
       => Beside("FEEDBACK", f.id)
UnseenIsBeside == \A c \in Seeded : Clearing(c) => Unseen(c)

\* A seeded candidate's trace may have gone from when a run begins until it has
\* deleted their applications.
Unsettled(c) ==
  c \in Seeded /\ (run \in {"failed", "crashed"} \/ (run = "running" /\ at =< start(c) + 5))
Traces == \A a \in application : traced(a) \/ Unsettled(a.candidate)
NoneDangles == \A e \in auditLog : exists(e) \/ e.by = "beside"

\* How far a run has come that no request has committed beside.
Restored(c, k) ==
  /\ {titleOf(a) : a \in applicationsOf(c)} = {plans(c)[n].title : n \in 1 .. k}
  /\ IsFiniteSet(applicationsOf(c)) /\ Cardinality(applicationsOf(c)) = k
  /\ \A a \in applicationsOf(c) : asPlanned(a)
\* The transaction after which k applications of the candidate are there.
transactionAt(c, k) == start(c) + 5 + 2 * k
SoFar ==
  /\ \A n \in 1 .. 5 : n < at => account[SeedAccounts[n]] = seedRole[SeedAccounts[n]]
  /\ \A n \in 1 .. 3 : 5 + 2 * n < at => SeedRoles[n].title \in {r.title : r \in role}
  /\ 14 < at => profile["candidate"] = "seeded"
  /\ \A c \in Seeded, k \in 0 .. 3 :
       k =< Len(plans(c)) /\ transactionAt(c, k) < at /\ (k < Len(plans(c)) => at =< transactionAt(c, k + 1)) =>
       Restored(c, k)
  /\ \A c \in Seeded : \A n \in 1 .. Len(plans(c)) :
       at = transactionAt(c, n) => \E r \in role : r.id = found /\ r.title = plans(c)[n].title
Progress ==
  ~disturbed => /\ run # "failed" /\ (run = "complete" => Baseline)
                /\ run = "running" => SoFar

IInv ==
  /\ Types /\ Keys /\ References /\ Histories /\ Bounds
  /\ Places /\ UnseenIsBeside /\ Traces /\ NoneDangles /\ Progress

\* Where the two turns begin.
LEMMA StartsAre ==
  /\ "candidate" \in Seeded /\ "candidate2" \in Seeded
  /\ \A c \in Seeded : \/ c = "candidate" /\ start(c) = 14 /\ Len(plans(c)) = 3
                       \/ c = "candidate2" /\ start(c) = 26 /\ Len(plans(c)) = 1
BY PlansAre, ApplicationsAre DEF start, plans

\* Where their transactions are.
LEMMA TransactionsAre ==
  ASSUME NEW c \in Seeded, NEW k \in 1 .. Len(plans(c))
  PROVE  \/ c = "candidate" /\ start(c) = 14 /\ k \in 1 .. 3 /\ transactionAt(c, k) = 19 + 2 * k
         \/ c = "candidate2" /\ start(c) = 26 /\ k = 1 /\ transactionAt(c, k) = 33
<1>1. (\A n \in 1 .. 3 : 14 + 5 + 2 * n = 19 + 2 * n) /\ \A n \in 1 .. 1 : n = 1 /\ 26 + 5 + 2 * n = 33
  OBVIOUS
<1>2. CASE c = "candidate" /\ start(c) = 14 /\ Len(plans(c)) = 3
  <2>1. k \in 1 .. 3 /\ transactionAt(c, k) = 14 + 5 + 2 * k
    BY <1>2, Zenon DEF transactionAt
  <2> QED BY <1>1, <1>2, <2>1, Zenon
<1>3. CASE c = "candidate2" /\ start(c) = 26 /\ Len(plans(c)) = 1
  <2>1. k \in 1 .. 1 /\ transactionAt(c, k) = 26 + 5 + 2 * k
    BY <1>3, Zenon DEF transactionAt
  <2> QED BY <1>1, <1>3, <2>1, Zenon
<1> QED BY <1>2, <1>3, StartsAre, Zenon

LEMMA PlansAreFew == \A c \in Seeded : \A n \in 1 .. Len(plans(c)) : n \in 1 .. 3 /\ n \in 0 .. 3
<1>1. 1 \in 1 .. 3 /\ \A n \in 1 .. 3 : n \in 0 .. 3
  OBVIOUS
<1> QED BY <1>1, TransactionsAre, Zenon

LEMMA ResetsAre ==
  ASSUME NEW c \in Seeded, NEW k \in 0 .. 3, k =< Len(plans(c))
  PROVE  \/ c = "candidate" /\ transactionAt(c, k) = 19 + 2 * k
         \/ c = "candidate2" /\ transactionAt(c, k) = 31 + 2 * k /\ k =< 1
<1>1. CASE k = 0
  <2>1. (c = "candidate" /\ start(c) = 14) \/ (c = "candidate2" /\ start(c) = 26)
    BY StartsAre
  <2> QED BY <1>1, <2>1 DEF transactionAt
<1>2. CASE k # 0
  <2>1. Len(plans(c)) \in Nat
    BY StartsAre
  <2>2. k \in 1 .. Len(plans(c))
    BY <1>2, <2>1
  <2> QED BY <2>2, TransactionsAre
<1> QED BY <1>1, <1>2

\* A statement that is awaited is the one at the script's place.
LEMMA Awaited ==
  ASSUME Types, Places, NEW do, Awaits(do)
  PROVE  run = "running" /\ at \in 1 .. 33 /\ main[at].do = do /\ statement = main[at]
BY ScriptIs DEF Types, Places, Awaits, statement

\* Fewer ids are bounded too,
LEMMA BoundedPart ==
  ASSUME NEW S, NEW T, Bounded(S), T \subseteq S
  PROVE  Bounded(T)
BY DEF Bounded

\* and so are more of them below a bound.
LEMMA BoundedMore ==
  ASSUME NEW S, Bounded(S), NEW T, T \subseteq Nat, NEW b \in Nat, \A id \in T : id =< b
  PROVE  Bounded(S \cup T)
<1>1. PICK d \in Nat : \A id \in S : id =< d
  BY DEF Bounded
<1>2. d + b \in Nat /\ \A id \in S \cup T : id =< d + b
  BY <1>1 DEF Bounded
<1> QED BY <1>2 DEF Bounded

-----------------------------------------------------------------------------
(***************************************************************************)
(* Steps that leave the applications and all that hangs off them alone.    *)
(***************************************************************************)
rows == <<application, interview, feedback, auditLog>>

\* A trace is read off the rows alone.
LEMMA TraceStays ==
  ASSUME UNCHANGED rows, NEW a
  PROVE  traced(a)' <=> traced(a)
BY DEF rows, traced, roundTraced, entriesOf, roundsOf, feedbackOf

LEMMA RowsStay ==
  ASSUME References, Histories, NoneDangles, UNCHANGED rows, ids(role) \subseteq ids(role')
  PROVE  References' /\ Histories' /\ NoneDangles'
<1>1. References'
  BY DEF References, rows, ids
<1>2. Histories'
  BY DEF Histories, rows
<1>3. NoneDangles'
  BY DEF NoneDangles, rows, exists, ids
<1> QED BY <1>1, <1>2, <1>3

\* A statement before, after or between the candidates' resets.
LEMMA ScriptGoesOn ==
  ASSUME IInv, run = "running", run' = run, at' \in 1 .. 34, UNCHANGED rows, doomed' = doomed,
         ids(role) \subseteq ids(role'),
         \A c \in Seeded : at \notin start(c) + 2 .. start(c) + 5 /\ at' \notin start(c) + 2 .. start(c) + 5
                           /\ (at =< start(c) + 5 => at' =< start(c) + 5)
  PROVE  References' /\ Histories' /\ Places' /\ UnseenIsBeside' /\ Traces' /\ NoneDangles'
<1>1. References' /\ Histories' /\ NoneDangles'
  BY RowsStay DEF IInv
<1>2. \A c \in Seeded : ~Collecting(c) /\ ~Collecting(c)' /\ ~Clearing(c)'
  BY StartsAre DEF Collecting, Clearing, start
<1>3. Places'
  BY <1>2 DEF IInv, Places
<1>4. UnseenIsBeside'
  BY <1>2 DEF UnseenIsBeside
<1>5. Traces'
  <2>1. \A c : Unsettled(c) => Unsettled(c)'
    BY DEF Unsettled
  <2> QED BY <2>1, TraceStays DEF IInv, Traces, rows
<1> QED BY <1>1, <1>3, <1>4, <1>5

\* The end of a run, whole or not.
LEMMA ScriptEnds ==
  ASSUME IInv, NEW how \in {"complete", "failed", "crashed"}, End(how), run = "running",
         how = "complete" => at = 34
  PROVE  /\ Types' /\ Keys' /\ References' /\ Histories' /\ Bounds' /\ Places' /\ UnseenIsBeside'
         /\ Traces' /\ NoneDangles'
<1>0. /\ UNCHANGED rows /\ UNCHANGED database /\ run' = how /\ at' = 0 /\ found' = 0 /\ doomed' = NothingDoomed
      /\ disturbed' = disturbed
  BY DEF End, rows, database
<1>1. Types'
  BY <1>0 DEF IInv, Types, database, NothingDoomed
<1>2. Keys' /\ References' /\ Histories' /\ NoneDangles'
  BY <1>0, RowsStay DEF IInv, Keys, database
<1>3. Bounds'
  <2>1. /\ (ids(application) \cup named("APPLICATION") \cup doomed.applications)'
             \subseteq ids(application) \cup named("APPLICATION") \cup doomed.applications
        /\ (ids(interview) \cup named("INTERVIEW") \cup doomed.interviews)'
             \subseteq ids(interview) \cup named("INTERVIEW") \cup doomed.interviews
        /\ (ids(feedback) \cup named("FEEDBACK") \cup doomed.feedback)'
             \subseteq ids(feedback) \cup named("FEEDBACK") \cup doomed.feedback
    BY <1>0 DEF database, named, ids, NothingDoomed
  <2>2. Bounded(ids(role) \cup {0})
    <3>1. Bounded(ids(role))
      BY BoundedPart DEF IInv, Bounds
    <3> QED BY <3>1 DEF Bounded
  <2>3. Bounded((ids(role) \cup {found})')
    BY <1>0, <2>2 DEF database, ids
  <2> QED BY <2>1, <2>3, BoundedPart DEF IInv, Bounds
<1>4. Places' /\ UnseenIsBeside'
  BY <1>0 DEF Places, UnseenIsBeside, Collecting, Clearing
<1>5. Traces'
  <2>1. ASSUME NEW a \in application, ~traced(a) PROVE Unsettled(a.candidate)'
    <3>1. Unsettled(a.candidate)
      BY <2>1 DEF IInv, Traces
    <3>2. a.candidate \in Seeded /\ at =< start(a.candidate) + 5
      BY <3>1 DEF Unsettled
    <3>3. how # "complete"
      BY <3>2, StartsAre
    <3> QED BY <1>0, <3>2, <3>3 DEF Unsettled
  <2> QED BY <1>0, <2>1, TraceStays DEF Traces, rows
<1> QED BY <1>1, <1>2, <1>3, <1>4, <1>5

\* No row of Restored reads another table than these.
LEMMA RestoredStays ==
  ASSUME UNCHANGED <<role, application, interview, feedback>>, NEW c, NEW k
  PROVE  Restored(c, k)' <=> Restored(c, k)
BY DEF Restored, applicationsOf, titleOf, asPlanned, roundsOf, feedbackOf

\* Each statement keeps the invariant.
LEMMA UpsertUserStep ==
  ASSUME IInv, UpsertUser
  PROVE  IInv'
<1>1. run = "running" /\ at \in 1 .. 5 /\ statement.of = SeedAccounts[at]
  BY Awaited, PlaceOf DEF IInv, UpsertUser
<1>2. /\ account' = [account EXCEPT ![SeedAccounts[at]] = seedRole[SeedAccounts[at]]]
      /\ UNCHANGED rows /\ UNCHANGED <<profile, role, found, doomed, run, disturbed>> /\ at' = at + 1
  BY <1>1 DEF UpsertUser, Then, Goto, Keeps, rows
<1>3. \A u \in Accounts : seedRole[u] \in {"RECRUITER", "INTERVIEWER", "CANDIDATE"}
  BY DEF seedRole, Accounts
<1>4. Types' /\ Keys' /\ Bounds'
  <2>1. Types'
    BY <1>1, <1>2, <1>3, AccountsAre DEF IInv, Types, rows
  <2>2. Keys' /\ Bounds'
    BY <1>2 DEF IInv, Keys, Bounds, rows, ids, named
  <2> QED BY <2>1, <2>2
<1>5. References' /\ Histories' /\ Places' /\ UnseenIsBeside' /\ Traces' /\ NoneDangles'
  BY <1>1, <1>2, ScriptGoesOn, StartsAre
<1>6. Progress'
  <2> SUFFICES ASSUME ~disturbed PROVE SoFar'
    BY <1>1, <1>2 DEF Progress
  <2>1. SoFar
    BY <1>1 DEF IInv, Progress
  <2>2. \A n \in 1 .. 5 : n < at' => account'[SeedAccounts[n]] = seedRole[SeedAccounts[n]]
    BY <1>1, <1>2, <2>1, AccountsAre DEF SoFar, IInv, Types
  <2>3. \A c \in Seeded, k \in 0 .. 3 : ~(transactionAt(c, k) < at')
    BY <1>1, <1>2, StartsAre DEF transactionAt
  <2>4. \A c \in Seeded : \A n \in 1 .. Len(plans(c)) : at' # transactionAt(c, n)
    BY <1>1, <1>2, StartsAre DEF transactionAt
  <2> QED BY <1>1, <1>2, <2>2, <2>3, <2>4 DEF SoFar
<1> QED BY <1>4, <1>5, <1>6 DEF IInv

LEMMA FindRoleStep ==
  ASSUME IInv, FindRole
  PROVE  IInv'
<1>1. run = "running" /\ \E k \in 1 .. 3 : at = 4 + 2 * k /\ statement.title = SeedRoles[k].title
  <2>1. run = "running" /\ at \in 1 .. 33 /\ main[at].do = "findRole" /\ statement = main[at]
    BY Awaited DEF IInv, FindRole
  <2>2. main[at].do = "findRole" => \E k \in 1 .. 3 : at = 4 + 2 * k /\ main[at].title = SeedRoles[k].title
    BY <2>1, PlaceOf
  <2> QED BY <2>1, <2>2
<1>2. PICK k \in 1 .. 3 : at = 4 + 2 * k /\ statement.title = SeedRoles[k].title
  BY <1>1
<1>3. /\ UNCHANGED rows /\ UNCHANGED <<account, profile, role, found, doomed, run, disturbed>>
      /\ at' = at + 1 \/ (at' = at + 2 /\ \E r \in role : r.title = SeedRoles[k].title)
  BY <1>2 DEF FindRole, Goto, Keeps, rows, database
<1>4. at \in 6 .. 10 /\ at' \in 7 .. 12
  BY <1>2, <1>3
<1>5. Types' /\ Keys' /\ Bounds'
  BY <1>3, <1>4 DEF IInv, Types, Keys, Bounds, rows, ids, named
<1>6. References' /\ Histories' /\ Places' /\ UnseenIsBeside' /\ Traces' /\ NoneDangles'
  <2>1. \A c \in Seeded : at \notin start(c) + 2 .. start(c) + 5 /\ at' \notin start(c) + 2 .. start(c) + 5
                          /\ at' =< start(c) + 5
    BY <1>4, StartsAre
  <2>2. ids(role) \subseteq ids(role') /\ at' \in 1 .. 34
    BY <1>3, <1>4
  <2> QED BY <1>1, <1>3, <2>1, <2>2, ScriptGoesOn
<1>7. Progress'
  <2> SUFFICES ASSUME ~disturbed PROVE SoFar'
    BY <1>1, <1>3 DEF Progress
  <2>1. SoFar
    BY <1>1 DEF IInv, Progress
  <2>2. \A n \in 1 .. 3 : 5 + 2 * n < at' => SeedRoles[n].title \in {r.title : r \in role'}
    <3>1. \A n \in 1 .. 3 : 5 + 2 * n < at' => 5 + 2 * n < at \/ (n = k /\ at' = at + 2)
      BY <1>2, <1>3
    <3>2. \A n \in 1 .. 3 : 5 + 2 * n < at => SeedRoles[n].title \in {r.title : r \in role}
      BY <2>1 DEF SoFar
    <3>3. at' = at + 2 => SeedRoles[k].title \in {r.title : r \in role}
      BY <1>3, <1>4
    <3>4. \A n \in 1 .. 3 : 5 + 2 * n < at' => SeedRoles[n].title \in {r.title : r \in role}
      BY <3>1, <3>2, <3>3
    <3> QED BY <1>3, <3>4
  <2>3. \A c \in Seeded, n \in 0 .. 3 : ~(transactionAt(c, n) < at')
    BY <1>4, StartsAre DEF transactionAt
  <2>4. \A c \in Seeded : \A n \in 1 .. Len(plans(c)) : at' # transactionAt(c, n)
    BY <1>4, StartsAre DEF transactionAt
  <2>5. \A n \in 1 .. 5 : account'[SeedAccounts[n]] = seedRole[SeedAccounts[n]]
    BY <1>3, <1>4, <2>1 DEF SoFar
  <2> QED BY <1>3, <1>4, <2>2, <2>3, <2>4, <2>5 DEF SoFar
<1> QED BY <1>5, <1>6, <1>7 DEF IInv

\* A role made now has an id of its own.
LEMMA NewRole ==
  ASSUME IInv, NEW title \in Titles, NEW status \in {"OPEN", "CLOSED"}, found' = found,
         role' = role \cup {[id |-> lastRole + 1, title |-> title, status |-> status]}
  PROVE  /\ role' \subseteq RoleRows /\ Keyed(role') /\ ids(role) \subseteq ids(role')
         /\ Bounded((ids(role) \cup {found})') /\ title \in {r.title : r \in role'}
<1>1. lastRole \in Nat /\ \A id \in ids(role) \cup {found} : id =< lastRole
  <2>1. Bounded(ids(role) \cup {found})
    BY DEF IInv, Bounds
  <2> QED BY <2>1, LastIdIsLast DEF lastRole
<1>2. \A r \in role : r \in RoleRows
  BY DEF IInv, Types
<1>3. PICK id \in Nat : id = lastRole + 1
  BY <1>1
<1>4. \A r \in role : r.id # id
  <2>1. \A r \in role : r.id \in ids(role) /\ r.id \in Nat
    BY <1>2 DEF ids, RoleRows
  <2> QED BY <1>1, <1>3, <2>1
<1>5. PICK new : new = [id |-> id, title |-> title, status |-> status]
  OBVIOUS
<1>6. role' = role \cup {new} /\ new.id = id /\ new.title = title /\ new \in RoleRows
  BY <1>3, <1>5 DEF RoleRows
<1>7. role' \subseteq RoleRows
  BY <1>2, <1>6
<1>8. Keyed(role')
  BY <1>4, <1>6 DEF Keyed, IInv, Keys
<1>9. ids(role') = ids(role) \cup {id}
  BY <1>6 DEF ids
<1>10. Bounded((ids(role) \cup {found})')
  <2>1. (ids(role) \cup {found})' = (ids(role) \cup {found}) \cup {id}
    BY <1>9
  <2>2. {id} \subseteq Nat /\ \A old \in {id} : old =< id
    OBVIOUS
  <2>3. PICK S : S = ids(role) \cup {found}
    OBVIOUS
  <2>4. Bounded(S)
    BY <2>3 DEF IInv, Bounds
  <2>5. Bounded(S \cup {id})
    BY <2>2, <2>4, BoundedMore
  <2> QED BY <2>1, <2>3, <2>5
<1> QED BY <1>6, <1>7, <1>8, <1>9, <1>10

LEMMA CreateRoleStep ==
  ASSUME IInv, CreateRole
  PROVE  IInv'
<1>1. run = "running" /\ \E k \in 1 .. 3 : at = 5 + 2 * k /\ statement.title = SeedRoles[k].title
  <2>1. run = "running" /\ at \in 1 .. 33 /\ main[at].do = "createRole" /\ statement = main[at]
    BY Awaited DEF IInv, CreateRole
  <2>2. main[at].do = "createRole" => \E k \in 1 .. 3 : at = 5 + 2 * k /\ main[at].title = SeedRoles[k].title
    BY <2>1, PlaceOf
  <2> QED BY <2>1, <2>2
<1>2. PICK k \in 1 .. 3 : at = 5 + 2 * k /\ statement.title = SeedRoles[k].title
  BY <1>1
<1>3. /\ UNCHANGED rows /\ UNCHANGED <<account, profile, found, doomed, run, disturbed>> /\ at' = at + 1
      /\ \E seed \in ToSet(SeedRoles) :
           /\ seed.title = SeedRoles[k].title
           /\ role' = role \cup {[id |-> lastRole + 1, title |-> seed.title, status |-> seed.status]}
  BY <1>2 DEF CreateRole, Then, Goto, Keeps, rows
<1>4. PICK title, status : /\ title \in Titles /\ status \in {"OPEN", "CLOSED"} /\ title = SeedRoles[k].title
                           /\ role' = role \cup {[id |-> lastRole + 1, title |-> title, status |-> status]}
  <2>1. \A seed \in ToSet(SeedRoles) : seed.status \in {"OPEN", "CLOSED"}
    BY DEF ToSet, SeedRoles
  <2>2. \A n \in 1 .. 3 : SeedRoles[n].title \in Titles
    BY DEF Titles, SeedRoles
  <2> QED BY <1>3, <2>1, <2>2
<1>5. /\ role' \subseteq RoleRows /\ Keyed(role') /\ ids(role) \subseteq ids(role')
      /\ Bounded((ids(role) \cup {found})') /\ title \in {r.title : r \in role'}
  BY <1>3, <1>4, NewRole
<1>6. at \in 7 .. 11 /\ at' \in 8 .. 12
  BY <1>2, <1>3
<1>7. Types' /\ Keys'
  BY <1>3, <1>5, <1>6 DEF IInv, Types, Keys, rows
<1>8. Bounds'
  BY <1>3, <1>5 DEF IInv, Bounds, rows, ids, named
<1>9. References' /\ Histories' /\ Places' /\ UnseenIsBeside' /\ Traces' /\ NoneDangles'
  <2>1. \A c \in Seeded : at \notin start(c) + 2 .. start(c) + 5 /\ at' \notin start(c) + 2 .. start(c) + 5
                          /\ at' =< start(c) + 5
    BY <1>6, StartsAre
  <2>2. at' \in 1 .. 34
    BY <1>6
  <2> QED BY <1>1, <1>3, <1>5, <2>1, <2>2, ScriptGoesOn
<1>10. Progress'
  <2> SUFFICES ASSUME ~disturbed PROVE SoFar'
    BY <1>1, <1>3 DEF Progress
  <2>1. SoFar
    BY <1>1 DEF IInv, Progress
  <2>2. \A n \in 1 .. 3 : 5 + 2 * n < at' => SeedRoles[n].title \in {r.title : r \in role'}
    <3>1. \A n \in 1 .. 3 : 5 + 2 * n < at' => 5 + 2 * n < at \/ n = k
      BY <1>2, <1>3
    <3> QED BY <1>4, <1>5, <2>1, <3>1 DEF SoFar
  <2>3. \A c \in Seeded, n \in 0 .. 3 : ~(transactionAt(c, n) < at')
    BY <1>6, StartsAre DEF transactionAt
  <2>4. \A c \in Seeded : \A n \in 1 .. Len(plans(c)) : at' # transactionAt(c, n)
    BY <1>6, StartsAre DEF transactionAt
  <2>5. \A n \in 1 .. 5 : account'[SeedAccounts[n]] = seedRole[SeedAccounts[n]]
    BY <1>3, <1>6, <2>1 DEF SoFar
  <2> QED BY <1>3, <1>6, <2>2, <2>3, <2>4, <2>5 DEF SoFar
<1> QED BY <1>7, <1>8, <1>9, <1>10 DEF IInv

\* A statement that leaves the rows Restored reads alone, away from a
\* transaction's place.
LEMMA ScriptKeeps ==
  ASSUME IInv, run = "running", at \in 1 .. 33, at' \in at + 1 .. 34, UNCHANGED <<run, disturbed>>,
         UNCHANGED <<account, role, application, interview, feedback>>,
         \A n \in 1 .. 5 : ~(at =< n), \A n \in 1 .. 3 : ~(at =< 5 + 2 * n),
         14 < at' => profile'["candidate"] = "seeded" \/ (profile' = profile /\ 14 < at),
         \A c \in Seeded, k \in 0 .. 3 : k =< Len(plans(c)) => ~(at =< transactionAt(c, k) /\ transactionAt(c, k) < at'),
         ~disturbed => \A c \in Seeded : \A n \in 1 .. Len(plans(c)) :
           at' = transactionAt(c, n) => \E r \in role : r.id = found' /\ r.title = plans(c)[n].title
  PROVE  Progress'
<1> SUFFICES ASSUME ~disturbed PROVE SoFar'
  BY DEF Progress
<1>1. SoFar
  BY DEF IInv, Progress
<1>2. \A n \in 1 .. 5 : account'[SeedAccounts[n]] = seedRole[SeedAccounts[n]]
  BY <1>1 DEF SoFar
<1>3. \A n \in 1 .. 3 : SeedRoles[n].title \in {r.title : r \in role'}
  BY <1>1 DEF SoFar
<1>4. 14 < at' => profile'["candidate"] = "seeded"
  BY <1>1 DEF SoFar
<1>5. ASSUME NEW c \in Seeded, NEW k \in 0 .. 3, k =< Len(plans(c)), transactionAt(c, k) < at',
             k < Len(plans(c)) => at' =< transactionAt(c, k + 1)
      PROVE  Restored(c, k)'
  <2>1. transactionAt(c, k) \in Nat /\ transactionAt(c, k + 1) \in Nat
    BY <1>5, StartsAre DEF transactionAt
  <2>2. transactionAt(c, k) < at
    BY <1>5, <2>1
  <2>0. k < Len(plans(c)) => at =< transactionAt(c, k + 1)
    BY <1>5, <2>1
  <2>3. Restored(c, k)
    BY <1>1, <1>5, <2>0, <2>2 DEF SoFar
  <2> QED BY <2>3, RestoredStays
<1>6. \A c \in Seeded : \A n \in 1 .. Len(plans(c)) :
        at' = transactionAt(c, n) => \E r \in role' : r.id = found' /\ r.title = plans(c)[n].title
  OBVIOUS
<1> QED BY <1>2, <1>3, <1>4, <1>5, <1>6 DEF SoFar

LEMMA FindPeopleStep ==
  ASSUME IInv, FindPeople
  PROVE  IInv'
<1>1. run = "running" /\ at = 12
  <2>1. run = "running" /\ at \in 1 .. 33 /\ main[at].do = "findPeople"
    BY Awaited DEF IInv, FindPeople
  <2> QED BY <2>1, PlaceOf
<1>2. CASE peopleFound /\ authorsOnPanels
  <2>1. UNCHANGED <<database, found, doomed, run, disturbed>> /\ at' = 13
    BY <1>1, <1>2 DEF FindPeople, Then, Goto, Keeps
  <2>2. Types' /\ Keys' /\ Bounds'
    BY <1>1, <2>1 DEF database, IInv, Types, Keys, Bounds, ids, named
  <2>3. References' /\ Histories' /\ Places' /\ UnseenIsBeside' /\ Traces' /\ NoneDangles'
    <3>1. UNCHANGED rows /\ ids(role) \subseteq ids(role') /\ run' = run /\ doomed' = doomed
      BY <2>1 DEF database, rows
    <3>2. \A c \in Seeded : at \notin start(c) + 2 .. start(c) + 5 /\ at' \notin start(c) + 2 .. start(c) + 5
                            /\ at' =< start(c) + 5
      BY <1>1, <2>1, StartsAre
    <3> QED BY <1>1, <2>1, <3>1, <3>2, ScriptGoesOn
  <2>4. Progress'
    <3>1. \A c \in Seeded, k \in 0 .. 3 : ~(transactionAt(c, k) < at') /\ at' # transactionAt(c, k)
      BY <1>1, <2>1, StartsAre DEF transactionAt
    <3>2. \A c \in Seeded : \A n \in 1 .. Len(plans(c)) : at' # transactionAt(c, n)
      BY <3>1, PlansAreFew
    <3>3. UNCHANGED <<account, role, application, interview, feedback>> /\ UNCHANGED <<run, disturbed>>
      BY <2>1 DEF database
    <3> QED BY <1>1, <2>1, <3>1, <3>2, <3>3, ScriptKeeps
  <2> QED BY <2>2, <2>3, <2>4 DEF IInv
<1>3. CASE ~(peopleFound /\ authorsOnPanels)
  <2>1. End("failed")
    BY <1>3 DEF FindPeople
  <2>2. run' = "failed" /\ disturbed' = disturbed
    BY <2>1 DEF End
  <2>3. disturbed
    <3> SUFFICES ASSUME ~disturbed PROVE peopleFound /\ authorsOnPanels
      BY <1>3
    <3>1. \A u \in Accounts : account[u] = seedRole[u]
      BY <1>1, AccountsAre DEF IInv, Progress, SoFar
    <3>2. peopleFound
      BY <3>1, SeedNull DEF peopleFound, Interviewers, seedRole, Accounts
    <3>3. authorsOnPanels
      <4>1. \A round \in ToSet(SeedInterviews) : round.authors \subseteq round.panel
        BY DEF ToSet, SeedInterviews, Round
      <4>2. ToSet(<<>>) = {}
        BY DEF ToSet
      <4> QED BY <4>1, <4>2, PlansAre DEF authorsOnPanels
    <3> QED BY <3>2, <3>3
  <2>4. Progress'
    BY <2>2, <2>3 DEF Progress
  <2> QED BY <1>1, <2>1, <2>4, ScriptEnds DEF IInv
<1> QED BY <1>2, <1>3

\* Two statements beside a candidate's reset that leave the rows alone.
LEMMA BetweenResets ==
  ASSUME IInv, run = "running", at \in {13, 14, 26}, at' = at + 1, UNCHANGED <<run, disturbed, found, doomed>>,
         UNCHANGED <<account, role>>, UNCHANGED rows, profile' \in [Seeded -> {Null, "seeded", "patched"}],
         at = 14 => profile'["candidate"] = "seeded", at # 14 => profile' = profile
  PROVE  IInv'
<1>1. Types' /\ Keys' /\ Bounds'
  <2>1. at' \in Nat
    OBVIOUS
  <2> QED BY <2>1 DEF rows, IInv, Types, Keys, Bounds, ids, named
<1>2. References' /\ Histories' /\ Places' /\ UnseenIsBeside' /\ Traces' /\ NoneDangles'
  <2>1. \A c \in Seeded : at \notin start(c) + 2 .. start(c) + 5 /\ at' \notin start(c) + 2 .. start(c) + 5
                          /\ (at =< start(c) + 5 => at' =< start(c) + 5)
    BY StartsAre
  <2>2. ids(role) \subseteq ids(role') /\ at' \in 1 .. 34
    OBVIOUS
  <2> QED BY <2>1, <2>2, ScriptGoesOn
<1>3. Progress'
  <2>1. \A c \in Seeded, k \in 0 .. 3 : k =< Len(plans(c)) => ~(at =< transactionAt(c, k) /\ transactionAt(c, k) < at')
    BY StartsAre DEF transactionAt
  <2>2. \A c \in Seeded : \A n \in 1 .. Len(plans(c)) : at' # transactionAt(c, n)
    <3>1. \A c \in Seeded : \A n \in 1 .. 3 : at' # transactionAt(c, n)
      BY StartsAre DEF transactionAt
    <3> QED BY <3>1, PlansAreFew
  <2>3. UNCHANGED <<account, role, application, interview, feedback>> /\ at \in 1 .. 33 /\ at' \in at + 1 .. 34
    BY DEF rows
  <2>4. 14 < at' => profile'["candidate"] = "seeded" \/ (profile' = profile /\ 14 < at)
    OBVIOUS
  <2>5. (\A n \in 1 .. 5 : ~(at =< n)) /\ \A n \in 1 .. 3 : ~(at =< 5 + 2 * n)
    OBVIOUS
  <2> QED BY <2>1, <2>2, <2>3, <2>4, <2>5, ScriptKeeps
<1> QED BY <1>1, <1>2, <1>3 DEF IInv

LEMMA FindCandidateStep ==
  ASSUME IInv, FindCandidate
  PROVE  IInv'
<1>1. run = "running" /\ at \in {13, 26} /\ statement.of \in Seeded
  <2>1. run = "running" /\ at \in 1 .. 33 /\ main[at].do = "findCandidate" /\ statement = main[at]
    BY Awaited DEF IInv, FindCandidate
  <2> QED BY <2>1, PlaceOf
<1>2. CASE account[statement.of] # Null
  <2>1. UNCHANGED <<database, found, doomed, run, disturbed>> /\ at' = at + 1
    BY <1>1, <1>2 DEF FindCandidate, Then, Goto, Keeps
  <2>2. UNCHANGED rows /\ UNCHANGED <<account, profile, role>>
    BY <2>1 DEF database, rows
  <2>3. profile' \in [Seeded -> {Null, "seeded", "patched"}]
    BY <2>2 DEF IInv, Types
  <2> QED BY <1>1, <2>1, <2>2, <2>3, BetweenResets
<1>3. CASE account[statement.of] = Null
  <2>1. End("failed")
    BY <1>3 DEF FindCandidate
  <2>2. run' = "failed" /\ disturbed' = disturbed
    BY <2>1 DEF End
  <2>3. disturbed
    <3> SUFFICES ASSUME ~disturbed PROVE account[statement.of] # Null
      BY <1>3
    <3>1. \A u \in Accounts : account[u] = seedRole[u]
      BY <1>1, AccountsAre DEF IInv, Progress, SoFar
    <3>2. statement.of \in Accounts /\ seedRole[statement.of] = "CANDIDATE"
      BY <1>1, PlansAre DEF Accounts, seedRole
    <3> QED BY <3>1, <3>2, SeedNull
  <2>4. Progress'
    BY <2>2, <2>3 DEF Progress
  <2> QED BY <1>1, <2>1, <2>4, ScriptEnds DEF IInv
<1> QED BY <1>2, <1>3

LEMMA UpsertProfileStep ==
  ASSUME IInv, UpsertProfile
  PROVE  IInv'
<1>1. run = "running" /\ at = 14 /\ statement.of = "candidate"
  <2>1. run = "running" /\ at \in 1 .. 33 /\ main[at].do = "upsertProfile" /\ statement = main[at]
    BY Awaited DEF IInv, UpsertProfile
  <2> QED BY <2>1, PlaceOf
<1>2. /\ profile' = [profile EXCEPT !["candidate"] = "seeded"] /\ at' = at + 1
      /\ UNCHANGED rows /\ UNCHANGED <<account, role>> /\ UNCHANGED <<run, disturbed, found, doomed>>
  BY <1>1 DEF UpsertProfile, Then, Goto, Keeps, rows
<1>3. profile' \in [Seeded -> {Null, "seeded", "patched"}] /\ profile'["candidate"] = "seeded"
  BY <1>2, StartsAre DEF IInv, Types
<1> QED BY <1>1, <1>2, <1>3, BetweenResets

LEMMA FindRoleOfStep ==
  ASSUME IInv, FindRoleOf
  PROVE  IInv'
<1>1. PICK c, k : /\ c \in Seeded /\ k \in 1 .. Len(plans(c)) /\ run = "running"
                  /\ at = start(c) + 4 + 2 * k /\ statement.title = plans(c)[k].title
  <2>1. run = "running" /\ at \in 1 .. 33 /\ main[at].do = "findRoleOf" /\ statement = main[at]
    BY Awaited DEF IInv, FindRoleOf
  <2>2. main[at].of \in Seeded /\ \E k \in 1 .. Len(plans(main[at].of)) :
          at = start(main[at].of) + 4 + 2 * k /\ main[at].title = plans(main[at].of)[k].title
    BY <2>1, PlaceOf
  <2> QED BY <2>1, <2>2
<1>0. /\ at + 1 = transactionAt(c, k)
      /\ \/ c = "candidate" /\ k \in 1 .. 3 /\ at = 18 + 2 * k
         \/ c = "candidate2" /\ k = 1 /\ at = 32
  <2>1. at = start(c) + 4 + 2 * k /\ c \in Seeded /\ k \in 1 .. Len(plans(c))
    BY <1>1
  <2>2. start(c) \in Nat /\ k \in Nat
    BY <2>1, TransactionsAre
  <2>3. at + 1 = transactionAt(c, k)
    BY <2>1, <2>2 DEF transactionAt
  <2>4. at \in Nat
    BY <2>1, <2>2
  <2> QED BY <2>1, <2>3, <2>4, TransactionsAre
<1>2. k \in 1 .. 3 /\ at \in 20 .. 32
  BY <1>0
<1> DEFINE match == {r \in role : r.title = statement.title}
<1>3. CASE match # {}
  <2>1. /\ UNCHANGED database /\ UNCHANGED <<run, disturbed, doomed>> /\ at' = at + 1
        /\ found' \in ids(match)
    BY <1>1, <1>3 DEF FindRoleOf, Then, Goto
  <2>2. PICK r \in role : r.title = plans(c)[k].title /\ r.id = found'
    BY <1>1, <2>1 DEF ids
  <2>3. found' \in Nat /\ found' \in ids(role)
    BY <2>2 DEF IInv, Types, RoleRows, ids
  <2>4. Types' /\ Keys'
    BY <1>2, <2>1, <2>3 DEF database, IInv, Types, Keys
  <2>5. Bounds'
    <3>1. (ids(role) \cup {found})' \subseteq ids(role) \cup {found}
      BY <2>1, <2>3 DEF database, ids
    <3> QED BY <2>1, <3>1, BoundedPart DEF database, IInv, Bounds, ids, named
  <2>6. References' /\ Histories' /\ Places' /\ UnseenIsBeside' /\ Traces' /\ NoneDangles'
    <3>1. UNCHANGED rows /\ ids(role) \subseteq ids(role') /\ at' \in 1 .. 34
      BY <1>2, <2>1 DEF database, rows
    <3>2. \A s \in Seeded : at \notin start(s) + 2 .. start(s) + 5 /\ at' \notin start(s) + 2 .. start(s) + 5
                            /\ (at =< start(s) + 5 => at' =< start(s) + 5)
      BY <1>0, <2>1, StartsAre
    <3> QED BY <1>1, <2>1, <3>1, <3>2, ScriptGoesOn
  <2>7. Progress'
    <3>1. \A s \in Seeded, n \in 0 .. 3 : n =< Len(plans(s)) => ~(at =< transactionAt(s, n) /\ transactionAt(s, n) < at')
      <4> SUFFICES ASSUME NEW s \in Seeded, NEW n \in 0 .. 3, n =< Len(plans(s))
                   PROVE  at # transactionAt(s, n)
        <5>1. \A s \in Seeded, n \in 0 .. 3 : transactionAt(s, n) \in Nat
          BY StartsAre DEF transactionAt
        <5> QED BY <1>2, <2>1, <5>1
      <4>1. \/ s = "candidate" /\ transactionAt(s, n) = 19 + 2 * n
            \/ s = "candidate2" /\ transactionAt(s, n) = 31 + 2 * n /\ n =< 1
        BY ResetsAre
      <4> QED BY <1>0, <4>1
    <3>2. ASSUME NEW s \in Seeded, NEW n \in 1 .. Len(plans(s)), at' = transactionAt(s, n)
          PROVE  s = c /\ n = k
      <4>1. \/ s = "candidate" /\ n \in 1 .. 3 /\ transactionAt(s, n) = 19 + 2 * n
            \/ s = "candidate2" /\ n = 1 /\ transactionAt(s, n) = 33
        BY <3>2, TransactionsAre
      <4> QED BY <1>0, <2>1, <3>2, <4>1
    <3>3. \A s \in Seeded : \A n \in 1 .. Len(plans(s)) :
            at' = transactionAt(s, n) => \E x \in role : x.id = found' /\ x.title = plans(s)[n].title
      BY <2>2, <3>2
    <3>4. UNCHANGED <<account, role, application, interview, feedback>> /\ profile' = profile /\ 14 < at
      BY <1>2, <2>1 DEF database
    <3>5. at \in 1 .. 33 /\ at' \in at + 1 .. 34 /\ (\A n \in 1 .. 5 : ~(at =< n)) /\ \A n \in 1 .. 3 : ~(at =< 5 + 2 * n)
      BY <1>2, <2>1
    <3> QED BY <1>1, <2>1, <3>1, <3>3, <3>4, <3>5, ScriptKeeps
  <2> QED BY <2>4, <2>5, <2>6, <2>7 DEF IInv
<1>4. CASE match = {}
  <2>1. End("failed")
    BY <1>4 DEF FindRoleOf
  <2>2. run' = "failed" /\ disturbed' = disturbed
    BY <2>1 DEF End
  <2>3. disturbed
    <3> SUFFICES ASSUME ~disturbed PROVE \E r \in role : r.title = statement.title
      BY <1>4
    <3>1. \A n \in 1 .. 3 : SeedRoles[n].title \in {r.title : r \in role}
      BY <1>1, <1>2 DEF IInv, Progress, SoFar
    <3>2. \E n \in 1 .. 3 : plans(c)[k].title = SeedRoles[n].title
      <4>1. /\ SeedRoles[1].title = "Backend" /\ SeedRoles[2].title = "Designer" /\ SeedRoles[3].title = "Manager"
            /\ 1 \in 1 .. 3 /\ 2 \in 1 .. 3 /\ 3 \in 1 .. 3
        BY DEF SeedRoles
      <4>2. plans("candidate") = SeedApplications /\ plans("candidate2") = SeedOtherApplications
        BY PlansAre DEF plans
      <4>3. plans(c)[k].title \in {"Backend", "Designer", "Manager"}
        BY <1>1, <1>2, <4>2, ApplicationsAre, StartsAre
      <4> QED BY <4>1, <4>3
    <3> QED BY <1>1, <3>1, <3>2
  <2>4. Progress'
    BY <2>2, <2>3 DEF Progress
  <2> QED BY <1>1, <2>1, <2>4, ScriptEnds DEF IInv
<1> QED BY <1>3, <1>4

\* At the end of an undisturbed run the baseline is there.
LEMMA CompleteStep ==
  ASSUME IInv, Complete
  PROVE  IInv'
<1>1. run = "running" /\ at = 34 /\ End("complete")
  BY ScriptIs DEF Complete
<1>2. /\ Types' /\ Keys' /\ References' /\ Histories' /\ Bounds' /\ Places' /\ UnseenIsBeside'
      /\ Traces' /\ NoneDangles'
  BY <1>1, ScriptEnds
<1>3. run' = "complete" /\ UNCHANGED database /\ disturbed' = disturbed
  BY <1>1 DEF End
<1>4. Progress'
  <2> SUFFICES ASSUME ~disturbed PROVE Baseline
    <3>1. Baseline <=> Baseline'
      BY <1>3 DEF database, Baseline, applicationsOf, titleOf, asPlanned, roundsOf, feedbackOf
    <3> QED BY <1>3, <3>1 DEF Progress
  <2>1. SoFar
    BY <1>1 DEF IInv, Progress
  <2>2. account = seedRole
    <3>1. \A u \in Accounts : account[u] = seedRole[u]
      BY <1>1, <2>1, AccountsAre DEF SoFar
    <3>2. account = [u \in Accounts |-> account[u]]
      BY DEF IInv, Types
    <3>3. seedRole = [u \in Accounts |-> seedRole[u]]
      BY AccountsAre DEF seedRole
    <3>4. [u \in Accounts |-> account[u]] = [u \in Accounts |-> seedRole[u]]
      BY <3>1
    <3> QED BY <3>2, <3>3, <3>4
  <2>3. Titles \subseteq {r.title : r \in role}
    <3>1. \A n \in 1 .. 3 : SeedRoles[n].title \in {r.title : r \in role}
      BY <1>1, <2>1 DEF SoFar
    <3>2. Len(SeedRoles) = 3
      BY DEF SeedRoles
    <3> QED BY <3>1, <3>2 DEF Titles
  <2>4. ASSUME NEW c \in Seeded
        PROVE  /\ SeedCandidates[c].profile => profile[c] = "seeded"
               /\ {titleOf(a) : a \in applicationsOf(c)}
                    = {plan.title : plan \in ToSet(SeedCandidates[c].applications)}
               /\ Cardinality(applicationsOf(c)) = Len(SeedCandidates[c].applications)
               /\ \A a \in applicationsOf(c) : asPlanned(a)
    <3>1. SeedCandidates[c].profile => profile[c] = "seeded"
      BY <1>1, <2>1, PlansAre DEF SoFar
    <3>2. PICK k \in 1 .. 3 : k = Len(plans(c)) /\ transactionAt(c, k) < 34
      <4>1. start(c) + 5 + 2 * 3 \in Nat /\ 3 \in 1 .. 3 /\ 1 \in 1 .. 3 /\ 14 + 5 + 2 * 3 < 34 /\ 26 + 5 + 2 * 1 < 34
        BY DEF start
      <4> QED BY <4>1, StartsAre, Zenon DEF transactionAt
    <3>3. Restored(c, k)
      <4>1. k \in 0 .. 3 /\ k =< k /\ ~(k < k)
        OBVIOUS
      <4>2. \A s \in Seeded, n \in 0 .. 3 :
              n =< Len(plans(s)) /\ transactionAt(s, n) < at /\ (n < Len(plans(s)) => at =< transactionAt(s, n + 1)) =>
                Restored(s, n)
        BY <2>1 DEF SoFar
      <4> QED BY <1>1, <3>2, <4>1, <4>2, Zenon
    <3>4. {plan.title : plan \in ToSet(plans(c))} = {plans(c)[n].title : n \in 1 .. k}
      <4>1. DOMAIN plans(c) = 1 .. k
        <5>1. DOMAIN SeedApplications = 1 .. Len(SeedApplications)
              /\ DOMAIN SeedOtherApplications = 1 .. Len(SeedOtherApplications)
          BY DEF SeedApplications, SeedOtherApplications
        <5> QED BY <3>2, <5>1, PlansAre DEF plans
      <4> QED BY <4>1, Zenon DEF ToSet
    <3>5. /\ {titleOf(a) : a \in applicationsOf(c)} = {plans(c)[n].title : n \in 1 .. k}
          /\ Cardinality(applicationsOf(c)) = k /\ \A a \in applicationsOf(c) : asPlanned(a)
      BY <3>3 DEF Restored
    <3>6. plans(c) = SeedCandidates[c].applications
      BY DEF plans
    <3> QED BY <3>1, <3>2, <3>4, <3>5, <3>6, Zenon
  <2> QED BY <2>2, <2>3, <2>4 DEF Baseline
<1> QED BY <1>2, <1>4 DEF IInv

\* A run may be stopped anywhere, and begun again.
LEMMA CrashStep ==
  ASSUME IInv, Crash
  PROVE  IInv'
<1>1. run = "running" /\ End("crashed") /\ run' = "crashed"
  BY DEF Crash, End
<1> QED BY <1>1, ScriptEnds DEF IInv, Progress

LEMMA RunStep ==
  ASSUME IInv, Run
  PROVE  IInv'
<1>1. /\ run # "running" /\ run' = "running" /\ at' = 1 /\ disturbed' = FALSE /\ UNCHANGED <<found, doomed>>
      /\ UNCHANGED <<account, profile, role>> /\ UNCHANGED rows
  BY DEF Run, database, rows
<1>2. Types' /\ Keys' /\ Bounds'
  BY <1>1 DEF rows, IInv, Types, Keys, Bounds, ids, named
<1>3. References' /\ Histories' /\ NoneDangles'
  BY <1>1, RowsStay DEF IInv
<1>4. \A c \in Seeded : ~Collecting(c) /\ ~Collecting(c)' /\ ~Clearing(c)'
  BY <1>1, StartsAre DEF Collecting, Clearing
<1>5. Places' /\ UnseenIsBeside'
  BY <1>1, <1>4 DEF IInv, Places, UnseenIsBeside
<1>6. Traces'
  <2>1. ASSUME NEW a \in application, ~traced(a) PROVE Unsettled(a.candidate)'
    <3>1. a.candidate \in Seeded
      BY <2>1 DEF IInv, Traces, Unsettled
    <3>2. 1 =< start(a.candidate) + 5
      BY <3>1, StartsAre
    <3> QED BY <1>1, <3>1, <3>2 DEF Unsettled
  <2> QED BY <1>1, <2>1, TraceStays DEF Traces, rows
<1>7. Progress'
  <2>1. \A c \in Seeded, k \in 0 .. 3 : ~(transactionAt(c, k) < at') /\ at' # transactionAt(c, k)
    BY <1>1, StartsAre DEF transactionAt
  <2>2. \A c \in Seeded : \A n \in 1 .. Len(plans(c)) : at' # transactionAt(c, n)
    BY <2>1, PlansAreFew
  <2>3. SoFar'
    BY <1>1, <2>1, <2>2 DEF SoFar
  <2> QED BY <1>1, <2>3 DEF Progress
<1> QED BY <1>2, <1>3, <1>5, <1>6, <1>7 DEF IInv

\* Nothing in the invariant counts runs or requests.
LEMMA IdleStep ==
  ASSUME IInv, UNCHANGED vars
  PROVE  IInv'
<1>1. UNCHANGED rows /\ UNCHANGED <<account, profile, role, run, at, found, doomed, disturbed>>
  BY DEF vars, database, script, rows
<1>2. Types' /\ Keys' /\ Bounds' /\ References' /\ Histories' /\ NoneDangles'
  BY <1>1, RowsStay DEF rows, IInv, Types, Keys, Bounds, ids, named
<1>3. Places' /\ UnseenIsBeside'
  BY <1>1 DEF rows, IInv, Places, UnseenIsBeside, Collecting, Clearing, Unseen, Beside, applicationsIds, roundsIds,
              feedbackIds, applicationsOf, roundsOf, feedbackOf, ids
<1>4. Traces'
  BY <1>1, TraceStays DEF rows, IInv, Traces, Unsettled
<1>5. Progress'
  <2>1. Baseline <=> Baseline'
    BY <1>1 DEF rows, Baseline, applicationsOf, titleOf, asPlanned, roundsOf, feedbackOf
  <2>2. SoFar => SoFar'
    <3>1. \A c, k : Restored(c, k) => Restored(c, k)'
      BY <1>1, RestoredStays DEF rows
    <3> QED BY <1>1, <3>1 DEF SoFar
  <2> QED BY <1>1, <2>1, <2>2 DEF IInv, Progress
<1> QED BY <1>2, <1>3, <1>4, <1>5 DEF IInv

-----------------------------------------------------------------------------
(***************************************************************************)
(* What is doomed, and its clearing.                                       *)
(***************************************************************************)
LEMMA TheirIds ==
  ASSUME NEW c
  PROVE  applicationsIds(c) \subseteq ids(application) /\ roundsIds(c) \subseteq ids(interview)
         /\ feedbackIds(c) \subseteq ids(feedback)
BY DEF applicationsIds, roundsIds, feedbackIds, ids, applicationsOf, roundsOf, feedbackOf

\* A SELECT that collects what is to be cleared.
LEMMA Collects ==
  ASSUME IInv, run = "running", NEW c \in Seeded, at \in start(c) + 1 .. start(c) + 3, at' \in at + 1 .. start(c) + 5,
         UNCHANGED <<run, disturbed, found, account, profile, role>>, UNCHANGED rows,
         doomed' \in [applications : SUBSET applicationsIds(c), interviews : SUBSET roundsIds(c),
           feedback : SUBSET feedbackIds(c)],
         at' = start(c) + 5 => doomed' = NothingDoomed, Unseen(c)'
  PROVE  IInv'
<1>1. start(c) \in {14, 26} /\ at' \in Nat /\ at' \in 1 .. 34 /\ at \in 1 .. 33
  BY StartsAre
<1>2. /\ doomed'.applications \subseteq applicationsIds(c) /\ doomed'.interviews \subseteq roundsIds(c)
      /\ doomed'.feedback \subseteq feedbackIds(c)
  OBVIOUS
<1>3. Types' /\ Keys'
  <2>1. ids(application) \subseteq Nat /\ ids(interview) \subseteq Nat /\ ids(feedback) \subseteq Nat
    BY DEF IInv, Types, ids, ApplicationRows, InterviewRows, FeedbackRows
  <2>2. applicationsIds(c) \subseteq Nat /\ roundsIds(c) \subseteq Nat /\ feedbackIds(c) \subseteq Nat
    BY <2>1, TheirIds
  <2>3. doomed' \in [applications : SUBSET Nat, interviews : SUBSET Nat, feedback : SUBSET Nat]
    BY <2>2
  <2> QED BY <1>1, <2>3 DEF rows, IInv, Types, Keys
<1>4. Bounds'
  <2>1. /\ (ids(application) \cup named("APPLICATION") \cup doomed.applications)'
             \subseteq ids(application) \cup named("APPLICATION") \cup doomed.applications
        /\ (ids(interview) \cup named("INTERVIEW") \cup doomed.interviews)'
             \subseteq ids(interview) \cup named("INTERVIEW") \cup doomed.interviews
        /\ (ids(feedback) \cup named("FEEDBACK") \cup doomed.feedback)'
             \subseteq ids(feedback) \cup named("FEEDBACK") \cup doomed.feedback
        /\ (ids(role) \cup {found})' \subseteq ids(role) \cup {found}
    <3>1. ids(application') = ids(application) /\ ids(interview') = ids(interview) /\ ids(feedback') = ids(feedback)
          /\ ids(role') = ids(role)
      BY DEF rows
    <3>2. \A type : named(type)' = named(type)
      BY DEF rows, named
    <3> QED BY <1>2, <3>1, <3>2, TheirIds
  <2> QED BY <2>1, BoundedPart DEF IInv, Bounds
<1>5. References' /\ Histories' /\ NoneDangles'
  BY RowsStay DEF IInv
<1>6. applicationsIds(c)' = applicationsIds(c) /\ roundsIds(c)' = roundsIds(c) /\ feedbackIds(c)' = feedbackIds(c)
  BY DEF rows, applicationsIds, roundsIds, feedbackIds, ids, applicationsOf, roundsOf, feedbackOf
<1>7. \A d \in Seeded : (Collecting(d) \/ Collecting(d)' \/ Clearing(d)') => d = c
  BY <1>1, StartsAre DEF Collecting, Clearing
<1>8. Places'
  <2>1. Collecting(c)' \/ doomed' = NothingDoomed
    BY <1>1 DEF Collecting
  <2> QED BY <1>1, <1>2, <1>6, <1>7, <2>1 DEF Places
<1>9. UnseenIsBeside'
  BY <1>7 DEF UnseenIsBeside
<1>10. Traces'
  <2>1. \A d \in Seeded : at =< start(d) + 5 => at' =< start(d) + 5
    BY <1>1, StartsAre
  <2>2. \A d : Unsettled(d) => Unsettled(d)'
    BY <2>1 DEF Unsettled
  <2> QED BY <2>2, TraceStays DEF IInv, Traces, rows
<1>11. Progress'
  <2>1. \A s \in Seeded, k \in 0 .. 3 : k =< Len(plans(s)) => ~(at =< transactionAt(s, k) /\ transactionAt(s, k) < at')
    <3> SUFFICES ASSUME NEW s \in Seeded, NEW k \in 0 .. 3, k =< Len(plans(s)), at =< transactionAt(s, k),
        transactionAt(s, k) < at'
                 PROVE  FALSE
      OBVIOUS
    <3>1. \/ s = "candidate" /\ transactionAt(s, k) = 19 + 2 * k
          \/ s = "candidate2" /\ transactionAt(s, k) = 31 + 2 * k /\ k =< 1
      BY ResetsAre
    <3>2. (at \in 15 .. 17 /\ at' \in 16 .. 19) \/ (at \in 27 .. 29 /\ at' \in 28 .. 31)
      BY <1>1
    <3> QED BY <3>1, <3>2
  <2>2. \A s \in Seeded : \A n \in 1 .. Len(plans(s)) : at' # transactionAt(s, n)
    <3> SUFFICES ASSUME NEW s \in Seeded, NEW n \in 1 .. Len(plans(s)) PROVE at' # transactionAt(s, n)
      OBVIOUS
    <3>1. \/ s = "candidate" /\ n \in 1 .. 3 /\ transactionAt(s, n) = 19 + 2 * n
          \/ s = "candidate2" /\ n = 1 /\ transactionAt(s, n) = 33
      BY TransactionsAre
    <3>2. (\A k \in 1 .. 3 : at' # 19 + 2 * k) /\ at' # 33
      <4>1. at' \in 16 .. 19 \/ at' \in 28 .. 31
        BY <1>1
      <4> QED BY <4>1
    <3> QED BY <3>1, <3>2, Zenon
  <2>3. UNCHANGED <<account, role, application, interview, feedback>> /\ profile' = profile /\ 14 < at
        /\ at' \in at + 1 .. 34
    BY <1>1 DEF rows
  <2>4. (\A n \in 1 .. 5 : ~(at =< n)) /\ \A n \in 1 .. 3 : ~(at =< 5 + 2 * n)
    BY <1>1
  <2> QED BY <1>1, <2>1, <2>2, <2>3, <2>4, ScriptKeeps
<1> QED BY <1>3, <1>4, <1>5, <1>8, <1>9, <1>10, <1>11 DEF IInv

LEMMA FindApplicationsStep ==
  ASSUME IInv, FindApplications
  PROVE  IInv'
<1>1. PICK c \in Seeded : run = "running" /\ at = start(c) + 1 /\ statement.of = c
  <2>1. run = "running" /\ at \in 1 .. 33 /\ main[at].do = "findApplications" /\ statement = main[at]
    BY Awaited DEF IInv, FindApplications
  <2>2. main[at].of \in Seeded /\ at = start(main[at].of) + 1
    BY <2>1, PlaceOf
  <2> QED BY <2>1, <2>2
<1>2. doomed = NothingDoomed
  <2>1. \A d \in Seeded : ~Collecting(d)
    BY <1>1, StartsAre DEF Collecting
  <2> QED BY <2>1 DEF IInv, Places
<1>3. doomed' = [applications |-> applicationsIds(c), interviews |-> {}, feedback |-> {}]
  BY <1>1, <1>2 DEF FindApplications, NothingDoomed, reset, applicationsIds
<1>4. /\ at' = IF applicationsIds(c) = {} THEN at + 4 ELSE at + 1
      /\ UNCHANGED <<database, found, run, disturbed>>
  BY <1>3 DEF FindApplications, Goto
<1>5. UNCHANGED rows /\ UNCHANGED <<run, disturbed, found, account, profile, role>>
  BY <1>4 DEF database, rows
<1>6. at \in start(c) + 1 .. start(c) + 3 /\ at' \in at + 1 .. start(c) + 5 /\ (at' = start(c) + 2 \/ at' = start(c) + 5)
  BY <1>1, <1>4, StartsAre
<1>7. at' = start(c) + 5 => applicationsIds(c) = {} /\ doomed' = NothingDoomed
  <2>1. at' = start(c) + 5 => at' # at + 1
    BY <1>1, StartsAre
  <2>2. at' = start(c) + 5 => applicationsIds(c) = {}
    BY <1>4, <2>1
  <2> QED BY <1>3, <2>2 DEF NothingDoomed
<1>8. Unseen(c)'
  <2>1. \A a \in application : a.candidate = c => a.id \in applicationsIds(c)
    BY DEF applicationsIds, applicationsOf, ids
  <2>2. applicationsIds(c)' = applicationsIds(c)
    BY <1>5 DEF rows, applicationsIds, applicationsOf, ids
  <2>3. doomed'.applications = applicationsIds(c)
    BY <1>3
  <2>4. at' = start(c) + 2 \/ applicationsIds(c) = {}
    BY <1>6, <1>7
  <2> QED BY <1>5, <2>1, <2>2, <2>3, <2>4 DEF rows, Unseen
<1> QED BY <1>1, <1>3, <1>5, <1>6, <1>7, <1>8, Collects

LEMMA FindInterviewsStep ==
  ASSUME IInv, FindInterviews
  PROVE  IInv'
<1>1. PICK c \in Seeded : run = "running" /\ at = start(c) + 2 /\ statement.of = c
  <2>1. run = "running" /\ at \in 1 .. 33 /\ main[at].do = "findInterviews" /\ statement = main[at]
    BY Awaited DEF IInv, FindInterviews
  <2>2. main[at].of \in Seeded /\ at = start(main[at].of) + 2
    BY <2>1, PlaceOf
  <2> QED BY <2>1, <2>2
<1>2. Collecting(c) /\ Clearing(c)
  BY <1>1, StartsAre DEF Collecting, Clearing
<1>3. Unseen(c) /\ doomed.applications \subseteq applicationsIds(c) /\ doomed.feedback \subseteq feedbackIds(c)
  BY <1>2 DEF IInv, UnseenIsBeside, Places
<1>4. /\ doomed' = [doomed EXCEPT !.interviews = ids(roundsOf(doomed.applications))] /\ at' = at + 1
      /\ UNCHANGED rows /\ UNCHANGED <<run, disturbed, found, account, profile, role>>
  BY DEF FindInterviews, Then, Goto, database, rows
<1>5. doomed'.applications = doomed.applications /\ doomed'.interviews = ids(roundsOf(doomed.applications))
      /\ doomed'.feedback = doomed.feedback
      /\ doomed' = [applications |-> doomed'.applications, interviews |-> doomed'.interviews,
         feedback |-> doomed'.feedback]
  BY <1>4 DEF IInv, Types
<1>6. ids(roundsOf(doomed.applications)) \subseteq roundsIds(c)
  BY <1>3 DEF roundsIds, roundsOf, ids
<1>7. at \in start(c) + 1 .. start(c) + 3 /\ at' \in at + 1 .. start(c) + 5 /\ at' = start(c) + 3 /\ at' # start(c) + 5
      /\ at' # start(c) + 2 /\ at' # start(c) + 4
  BY <1>1, <1>4, StartsAre
<1>8. Unseen(c)'
  <2>1. \A i \in interview : i.id \notin doomed'.interviews => i.app \notin doomed.applications
    BY <1>5 DEF roundsOf, ids
  <2>2. applicationsIds(c)' = applicationsIds(c) /\ \A type, id : Beside(type, id)' <=> Beside(type, id)
    BY <1>4 DEF rows, applicationsIds, applicationsOf, ids, Beside
  <2>3. at = start(c) + 2 /\ at \notin {start(c) + 3, start(c) + 4} /\ at # start(c) + 3 /\ at # start(c) + 4
    BY <1>1, StartsAre
  <2>4. \A a \in application : a.candidate = c /\ a.id \notin doomed'.applications => Beside("APPLICATION", a.id)'
    BY <1>3, <1>5, <2>2 DEF Unseen
  <2>5. \A i \in interview : i.app \in applicationsIds(c) /\ i.id \notin doomed'.interviews => Beside("INTERVIEW", i.id)'
    BY <1>3, <2>1, <2>2, <2>3 DEF Unseen
  <2>6. \A i \in interview, f \in feedback :
          i.app \in applicationsIds(c) /\ f.round = i.id /\ i.id \notin doomed'.interviews => Beside("FEEDBACK", f.id)'
    BY <1>3, <2>1, <2>2, <2>3 DEF Unseen
  <2> QED BY <1>4, <1>7, <2>2, <2>4, <2>5, <2>6 DEF rows, Unseen
<1>9. doomed' \in [applications : SUBSET applicationsIds(c), interviews : SUBSET roundsIds(c),
      feedback : SUBSET feedbackIds(c)]
  BY <1>3, <1>5, <1>6
<1> QED BY <1>1, <1>4, <1>7, <1>8, <1>9, Collects

LEMMA FindFeedbackStep ==
  ASSUME IInv, FindFeedback
  PROVE  IInv'
<1>1. PICK c \in Seeded : run = "running" /\ at = start(c) + 3 /\ statement.of = c
  <2>1. run = "running" /\ at \in 1 .. 33 /\ main[at].do = "findFeedback" /\ statement = main[at]
    BY Awaited DEF IInv, FindFeedback
  <2>2. main[at].of \in Seeded /\ at = start(main[at].of) + 3
    BY <2>1, PlaceOf
  <2> QED BY <2>1, <2>2
<1>2. Collecting(c) /\ Clearing(c)
  BY <1>1, StartsAre DEF Collecting, Clearing
<1>3. Unseen(c) /\ doomed.applications \subseteq applicationsIds(c) /\ doomed.interviews \subseteq roundsIds(c)
  BY <1>2 DEF IInv, UnseenIsBeside, Places
<1>4. /\ doomed' = [doomed EXCEPT !.feedback = ids(feedbackOf(doomed.interviews))] /\ at' = at + 1
      /\ UNCHANGED rows /\ UNCHANGED <<run, disturbed, found, account, profile, role>>
  BY DEF FindFeedback, Then, Goto, database, rows
<1>5. doomed'.applications = doomed.applications /\ doomed'.interviews = doomed.interviews
      /\ doomed'.feedback = ids(feedbackOf(doomed.interviews))
      /\ doomed' = [applications |-> doomed'.applications, interviews |-> doomed'.interviews,
         feedback |-> doomed'.feedback]
  BY <1>4 DEF IInv, Types
<1>6. ids(feedbackOf(doomed.interviews)) \subseteq feedbackIds(c)
  BY <1>3 DEF feedbackIds, feedbackOf, ids
<1>7. at \in start(c) + 1 .. start(c) + 3 /\ at' \in at + 1 .. start(c) + 5 /\ at' = start(c) + 4 /\ at' # start(c) + 5
      /\ at' # start(c) + 2 /\ at' # start(c) + 3
  BY <1>1, <1>4, StartsAre
<1>8. Unseen(c)'
  <2>1. \A i \in interview, f \in feedback : f.round = i.id /\ f.id \notin doomed'.feedback =>
        i.id \notin doomed.interviews
    BY <1>5 DEF feedbackOf, ids
  <2>2. applicationsIds(c)' = applicationsIds(c) /\ \A type, id : Beside(type, id)' <=> Beside(type, id)
    BY <1>4 DEF rows, applicationsIds, applicationsOf, ids, Beside
  <2>3. at = start(c) + 3 /\ at \in {start(c) + 3, start(c) + 4} /\ at # start(c) + 2 /\ at # start(c) + 4
    BY <1>1, StartsAre
  <2>4. \A a \in application : a.candidate = c /\ a.id \notin doomed'.applications => Beside("APPLICATION", a.id)'
    BY <1>3, <1>5, <2>2 DEF Unseen
  <2>5. \A i \in interview : i.app \in applicationsIds(c) /\ i.id \notin doomed'.interviews => Beside("INTERVIEW", i.id)'
    BY <1>3, <1>5, <2>2, <2>3 DEF Unseen
  <2>6. \A i \in interview, f \in feedback :
          i.app \in applicationsIds(c) /\ f.round = i.id /\ f.id \notin doomed'.feedback => Beside("FEEDBACK", f.id)'
    BY <1>3, <2>1, <2>2, <2>3 DEF Unseen
  <2> QED BY <1>4, <1>7, <2>2, <2>4, <2>5, <2>6 DEF rows, Unseen
<1>9. doomed' \in [applications : SUBSET applicationsIds(c), interviews : SUBSET roundsIds(c),
      feedback : SUBSET feedbackIds(c)]
  BY <1>3, <1>5, <1>6
<1> QED BY <1>1, <1>4, <1>7, <1>8, <1>9, Collects

\* By the keys a row is one candidate's only.
LEMMA AnothersIds ==
  ASSUME Keys, NEW c, NEW a \in application, a.candidate # c
  PROVE  /\ a.id \notin applicationsIds(c)
         /\ \A i \in roundsOf({a.id}) : /\ i.id \notin roundsIds(c)
                                        /\ \A f \in feedbackOf({i.id}) : f.id \notin feedbackIds(c)
<1>1. a.id \notin applicationsIds(c)
  BY DEF Keys, Keyed, applicationsIds, applicationsOf, ids
<1>2. ASSUME NEW i \in roundsOf({a.id}) PROVE i.id \notin roundsIds(c)
  BY <1>1 DEF Keys, Keyed, roundsIds, roundsOf, ids
<1>3. ASSUME NEW i \in roundsOf({a.id}), NEW f \in feedbackOf({i.id}) PROVE f.id \notin feedbackIds(c)
  BY <1>2 DEF Keys, Keyed, feedbackIds, feedbackOf, ids
<1> QED BY <1>1, <1>2, <1>3

\* What traced and asPlanned read of an application.
LEMMA TracedStays ==
  ASSUME NEW a, traced(a), roundsOf({a.id})' = roundsOf({a.id}),
         entriesOf("APPLICATION", a.id)' = entriesOf("APPLICATION", a.id),
         \A i \in roundsOf({a.id}) :
           /\ entriesOf("INTERVIEW", i.id)' = entriesOf("INTERVIEW", i.id)
           /\ \A f \in feedbackOf({i.id})' :
                f \in feedbackOf({i.id}) /\ entriesOf("FEEDBACK", f.id)' = entriesOf("FEEDBACK", f.id)
  PROVE  traced(a)'
<1>1. entriesOf("APPLICATION", a.id)' = {<<told(row), Null>> : row \in ToSet(Tail(a.history))}
  BY DEF traced
<1>2. ASSUME NEW i \in roundsOf({a.id})' PROVE roundTraced(i)'
             /\ \A f \in feedbackOf({i.id})' : entriesOf("FEEDBACK", f.id)' # {}
  <2>1. i \in roundsOf({a.id})
    BY <1>2
  <2>2. roundTraced(i) /\ \A f \in feedbackOf({i.id}) : entriesOf("FEEDBACK", f.id) # {}
    BY <2>1 DEF traced
  <2>3. roundTraced(i)'
    BY <2>1, <2>2 DEF roundTraced
  <2>4. ASSUME NEW f \in feedbackOf({i.id})' PROVE entriesOf("FEEDBACK", f.id)' # {}
    <3>1. f \in feedbackOf({i.id}) /\ entriesOf("FEEDBACK", f.id)' = entriesOf("FEEDBACK", f.id)
      BY <2>1, <2>4
    <3> QED BY <2>2, <3>1
  <2> QED BY <2>3, <2>4
<1> QED BY <1>1, <1>2 DEF traced

LEMMA AsPlannedStays ==
  ASSUME NEW a, asPlanned(a), role' = role, roundsOf({a.id})' = roundsOf({a.id}),
         \A i \in roundsOf({a.id}) : feedbackOf({i.id})' = feedbackOf({i.id})
  PROVE  asPlanned(a)'
<1>1. titleOf(a)' = titleOf(a)
  BY DEF titleOf
<1>2. {<<i.panel, {f.author : f \in feedbackOf({i.id})'}>> : i \in roundsOf({a.id})'}
        = {<<i.panel, {f.author : f \in feedbackOf({i.id})}>> : i \in roundsOf({a.id})}
  OBVIOUS
<1> QED BY <1>1, <1>2 DEF asPlanned

LEMMA DeleteAuditStep ==
  ASSUME IInv, DeleteAudit
  PROVE  IInv'
<1>1. PICK c \in Seeded : run = "running" /\ at = start(c) + 4
  <2>1. run = "running" /\ at \in 1 .. 33 /\ main[at].do = "deleteAudit"
    BY Awaited DEF IInv, DeleteAudit
  <2>2. main[at].of \in Seeded /\ at = start(main[at].of) + 4
    BY <2>1, PlaceOf
  <2> QED BY <2>1, <2>2
<1>2. Collecting(c) /\ Clearing(c)
  BY <1>1, StartsAre DEF Collecting, Clearing
<1>3. Unseen(c) /\ doomed.applications \subseteq applicationsIds(c) /\ doomed.interviews \subseteq roundsIds(c)
      /\ doomed.feedback \subseteq feedbackIds(c)
  BY <1>2 DEF IInv, UnseenIsBeside, Places
<1>4. /\ auditLog' = {entry \in auditLog : ~cleared(entry)} /\ doomed' = NothingDoomed /\ at' = at + 1
      /\ UNCHANGED <<account, profile, role, application, interview, feedback>> /\ UNCHANGED <<run, disturbed, found>>
  BY DEF DeleteAudit, Then, Goto
<1>5. start(c) \in {14, 26} /\ at \in 1 .. 33 /\ at' \in 1 .. 34 /\ at' = start(c) + 5 /\ at' \in Nat
  BY <1>1, <1>4, StartsAre
<1>6. Types' /\ Keys' /\ Histories' /\ References'
  <2>1. Types'
    BY <1>4, <1>5 DEF IInv, Types, NothingDoomed
  <2>2. Keys' /\ Histories' /\ References'
    BY <1>4 DEF IInv, Keys, Histories, References, ids
  <2> QED BY <2>1, <2>2
<1>7. Bounds'
  <2>1. /\ (ids(application) \cup named("APPLICATION") \cup doomed.applications)'
             \subseteq ids(application) \cup named("APPLICATION") \cup doomed.applications
        /\ (ids(interview) \cup named("INTERVIEW") \cup doomed.interviews)'
             \subseteq ids(interview) \cup named("INTERVIEW") \cup doomed.interviews
        /\ (ids(feedback) \cup named("FEEDBACK") \cup doomed.feedback)'
             \subseteq ids(feedback) \cup named("FEEDBACK") \cup doomed.feedback
    BY <1>4 DEF named, ids, NothingDoomed
  <2> QED BY <1>4, <2>1, BoundedPart DEF IInv, Bounds, ids
<1>8. NoneDangles'
  BY <1>4 DEF IInv, NoneDangles, exists, ids
<1>9. \A d \in Seeded : ~Collecting(d)' /\ (Clearing(d)' => d = c)
  BY <1>5, StartsAre DEF Collecting, Clearing
<1>10. Places'
  BY <1>1, <1>4, <1>5, <1>9 DEF Places
<1>11. UnseenIsBeside'
  <2> SUFFICES Unseen(c)'
    BY <1>9 DEF UnseenIsBeside
  <2>0. /\ \A id \in doomed.applications : Beside("APPLICATION", id)'
        /\ \A id \in doomed.interviews : Beside("INTERVIEW", id)'
        /\ \A id \in doomed.feedback : Beside("FEEDBACK", id)'
    BY <1>4 DEF Beside, cleared
  <2>1. applicationsIds(c)' = applicationsIds(c) /\ \A type, id : Beside(type, id) => Beside(type, id)'
    BY <1>4 DEF applicationsIds, applicationsOf, ids, Beside
  <2>2. at = start(c) + 4 /\ at \in {start(c) + 3, start(c) + 4} /\ at # start(c) + 2 /\ at # start(c) + 3
    BY <1>1, StartsAre
  <2>3. \A a \in application : a.candidate = c => Beside("APPLICATION", a.id)'
    BY <1>3, <2>0, <2>1 DEF Unseen
  <2>4. \A i \in interview : i.app \in applicationsIds(c) => Beside("INTERVIEW", i.id)'
    BY <1>3, <2>0, <2>1, <2>2 DEF Unseen
  <2>5. \A i \in interview, f \in feedback : i.app \in applicationsIds(c) /\ f.round = i.id => Beside("FEEDBACK", f.id)'
    BY <1>3, <2>0, <2>1, <2>2 DEF Unseen
  <2> QED BY <1>4, <2>1, <2>3, <2>4, <2>5 DEF Unseen
<1>12. Traces'
  <2> SUFFICES ASSUME NEW a \in application PROVE traced(a)' \/ Unsettled(a.candidate)'
    BY <1>4 DEF Traces
  <2>1. CASE a.candidate = c
    BY <1>1, <1>4, <1>5, <2>1 DEF Unsettled
  <2>2. CASE Unsettled(a.candidate)
    <3>1. a.candidate \in Seeded /\ at =< start(a.candidate) + 5
      BY <1>1, <2>2 DEF Unsettled
    <3>2. at' =< start(a.candidate) + 5
      BY <1>1, <1>4, <3>1, StartsAre
    <3> QED BY <1>1, <1>4, <3>1, <3>2 DEF Unsettled
  <2>3. CASE a.candidate # c /\ traced(a)
    <3>1. /\ a.id \notin doomed.applications
          /\ \A i \in roundsOf({a.id}) : /\ i.id \notin doomed.interviews
                                         /\ \A f \in feedbackOf({i.id}) : f.id \notin doomed.feedback
      BY <1>3, <2>3, AnothersIds DEF IInv
    <3>2. /\ \A id : id \notin doomed.applications => entriesOf("APPLICATION", id)' = entriesOf("APPLICATION", id)
          /\ \A id : id \notin doomed.interviews => entriesOf("INTERVIEW", id)' = entriesOf("INTERVIEW", id)
          /\ \A id : id \notin doomed.feedback => entriesOf("FEEDBACK", id)' = entriesOf("FEEDBACK", id)
      <4>1. \A id : id \notin doomed.applications =>
              {x \in auditLog' : x.entityType = "APPLICATION" /\ x.entityId = id}
                = {x \in auditLog : x.entityType = "APPLICATION" /\ x.entityId = id}
        BY <1>4 DEF cleared
      <4>2. \A id : id \notin doomed.interviews =>
              {x \in auditLog' : x.entityType = "INTERVIEW" /\ x.entityId = id}
                = {x \in auditLog : x.entityType = "INTERVIEW" /\ x.entityId = id}
        BY <1>4 DEF cleared
      <4>3. \A id : id \notin doomed.feedback =>
              {x \in auditLog' : x.entityType = "FEEDBACK" /\ x.entityId = id}
                = {x \in auditLog : x.entityType = "FEEDBACK" /\ x.entityId = id}
        BY <1>4 DEF cleared
      <4> QED BY <4>1, <4>2, <4>3, Zenon DEF entriesOf
    <3>3. roundsOf({a.id})' = roundsOf({a.id}) /\ \A id : feedbackOf({id})' = feedbackOf({id})
      BY <1>4 DEF roundsOf, feedbackOf
    <3> QED BY <2>3, <3>1, <3>2, <3>3, TracedStays
  <2> QED BY <2>1, <2>2, <2>3 DEF IInv, Traces
<1>13. Progress'
  <2>1. \A s \in Seeded, k \in 0 .. 3 : k =< Len(plans(s)) => ~(at =< transactionAt(s, k) /\ transactionAt(s, k) < at')
    <3> SUFFICES ASSUME NEW s \in Seeded, NEW k \in 0 .. 3, k =< Len(plans(s)), at =< transactionAt(s, k),
        transactionAt(s, k) < at'
                 PROVE  FALSE
      OBVIOUS
    <3>1. \/ s = "candidate" /\ transactionAt(s, k) = 19 + 2 * k
          \/ s = "candidate2" /\ transactionAt(s, k) = 31 + 2 * k /\ k =< 1
      BY ResetsAre
    <3>2. (at = 18 /\ at' = 19) \/ (at = 30 /\ at' = 31)
      BY <1>1, <1>5
    <3> QED BY <3>1, <3>2
  <2>2. \A s \in Seeded : \A n \in 1 .. Len(plans(s)) : at' # transactionAt(s, n)
    <3> SUFFICES ASSUME NEW s \in Seeded, NEW n \in 1 .. Len(plans(s)) PROVE at' # transactionAt(s, n)
      OBVIOUS
    <3>1. \/ s = "candidate" /\ n \in 1 .. 3 /\ transactionAt(s, n) = 19 + 2 * n
          \/ s = "candidate2" /\ n = 1 /\ transactionAt(s, n) = 33
      BY TransactionsAre
    <3>2. (\A k \in 1 .. 3 : at' # 19 + 2 * k) /\ at' # 33
      <4>1. at' = 19 \/ at' = 31
        BY <1>5
      <4> QED BY <4>1
    <3> QED BY <3>1, <3>2, Zenon
  <2>3. (\A n \in 1 .. 5 : ~(at =< n)) /\ (\A n \in 1 .. 3 : ~(at =< 5 + 2 * n)) /\ 14 < at /\ at' \in at + 1 .. 34
    BY <1>1, <1>5
  <2> QED BY <1>1, <1>4, <1>5, <2>1, <2>2, <2>3, ScriptKeeps
<1> QED BY <1>6, <1>7, <1>8, <1>10, <1>11, <1>12, <1>13 DEF IInv

\* A reset takes nothing of another candidate's.
LEMMA OthersAreKept ==
  ASSUME IInv, NEW c, NEW a \in application, a.candidate # c, a \in application', UNCHANGED <<role, auditLog>>,
         interview' = {i \in interview : i.id \notin roundsIds(c)},
         feedback' = {f \in feedback : f.round \notin roundsIds(c)}
  PROVE  (traced(a) => traced(a)') /\ (asPlanned(a) => asPlanned(a)')
<1>1. \A i \in roundsOf({a.id}) : i.id \notin roundsIds(c)
  BY AnothersIds DEF IInv
<1>2. roundsOf({a.id})' = roundsOf({a.id})
  BY <1>1 DEF roundsOf
<1>3. \A i \in roundsOf({a.id}) : feedbackOf({i.id})' = feedbackOf({i.id})
  BY <1>1 DEF feedbackOf
<1>4. \A type, id : entriesOf(type, id)' = entriesOf(type, id)
  BY DEF entriesOf
<1> QED BY <1>2, <1>3, <1>4, TracedStays, AsPlannedStays

LEMMA NoneLeft ==
  ASSUME NEW c, applicationsOf(c)' = {}
  PROVE  Restored(c, 0)'
<1>1. 1 .. 0 = {}
  OBVIOUS
<1> QED BY <1>1, FS_EmptySet DEF Restored

LEMMA DeleteApplicationsStep ==
  ASSUME IInv, DeleteApplications
  PROVE  IInv'
<1>1. PICK c \in Seeded : run = "running" /\ at = start(c) + 5 /\ statement.of = c
  <2>1. run = "running" /\ at \in 1 .. 33 /\ main[at].do = "deleteApplications" /\ statement = main[at]
    BY Awaited DEF IInv, DeleteApplications
  <2>2. main[at].of \in Seeded /\ at = start(main[at].of) + 5
    BY <2>1, PlaceOf
  <2> QED BY <2>1, <2>2
<1>2. /\ application' = {a \in application : a.id \notin applicationsIds(c)}
      /\ interview' = {i \in interview : i.id \notin roundsIds(c)}
      /\ feedback' = {f \in feedback : f.round \notin roundsIds(c)}
      /\ at' = at + 1 /\ UNCHANGED <<account, profile, role, auditLog>> /\ UNCHANGED <<run, disturbed, found, doomed>>
  BY <1>1 DEF DeleteApplications, Then, Goto, Keeps, reset, applicationsIds, roundsIds
<1>3. start(c) \in {14, 26} /\ at \in 1 .. 33 /\ at' \in 1 .. 34 /\ at' = start(c) + 6 /\ at' \in Nat
  BY <1>1, <1>2, StartsAre
<1>4. \A d \in Seeded : ~Collecting(d) /\ ~Collecting(d)' /\ ~Clearing(d)'
  BY <1>1, <1>3, StartsAre DEF Collecting, Clearing
<1>5. doomed = NothingDoomed
  BY <1>4 DEF IInv, Places
<1>6. Unseen(c)
  BY <1>1, StartsAre DEF IInv, UnseenIsBeside, Clearing
<1>7. \A a \in application : a \in application' <=> a.candidate # c
  BY <1>2 DEF IInv, Keys, Keyed, applicationsIds, applicationsOf, ids
<1>8. Types' /\ Keys' /\ Histories'
  <2>1. Types'
    BY <1>2, <1>3 DEF IInv, Types
  <2>2. Keys' /\ Histories'
    BY <1>2 DEF IInv, Keys, Keyed, Histories
  <2> QED BY <2>1, <2>2
<1>9. References'
  <2>1. \A a \in application' : a.role \in ids(role)
    BY <1>2 DEF IInv, References
  <2>2. ASSUME NEW i \in interview' PROVE i.app \in ids(application')
    <3>1. i \in interview /\ i.app \notin applicationsIds(c)
      BY <1>2, <2>2 DEF roundsIds, roundsOf, ids
    <3> QED BY <1>2, <3>1 DEF IInv, References, ids
  <2>3. ASSUME NEW f \in feedback' PROVE f.round \in ids(interview')
    BY <1>2, <2>3 DEF IInv, References, ids
  <2> QED BY <1>2, <2>1, <2>2, <2>3 DEF References
<1>10. Bounds'
  <2>1. /\ (ids(application) \cup named("APPLICATION") \cup doomed.applications)'
             \subseteq ids(application) \cup named("APPLICATION") \cup doomed.applications
        /\ (ids(interview) \cup named("INTERVIEW") \cup doomed.interviews)'
             \subseteq ids(interview) \cup named("INTERVIEW") \cup doomed.interviews
        /\ (ids(feedback) \cup named("FEEDBACK") \cup doomed.feedback)'
             \subseteq ids(feedback) \cup named("FEEDBACK") \cup doomed.feedback
    BY <1>2 DEF named, ids
  <2> QED BY <1>2, <2>1, BoundedPart DEF IInv, Bounds, ids
<1>11. NoneDangles'
  <2> SUFFICES ASSUME NEW e \in auditLog, e.by # "beside" PROVE exists(e)'
    BY <1>2 DEF NoneDangles
  <2>1. exists(e) /\ Entry(e)
    BY DEF IInv, NoneDangles, Types
  <2>2. CASE e.entityType = "APPLICATION"
    <3>1. PICK a \in application : a.id = e.entityId
      BY <2>1, <2>2 DEF exists, ids
    <3>2. a.candidate # c
      BY <1>5, <1>6, <2>2, <3>1 DEF Unseen, Beside, NothingDoomed
    <3> QED BY <1>7, <2>2, <3>1, <3>2 DEF exists, ids
  <2>3. CASE e.entityType = "INTERVIEW"
    <3>1. PICK i \in interview : i.id = e.entityId
      BY <2>1, <2>3 DEF exists, ids
    <3>2. at # start(c) + 2 /\ at \notin {start(c) + 3, start(c) + 4}
      BY <1>1, <1>3
    <3>3. i.id \notin roundsIds(c)
      BY <1>6, <2>3, <3>1, <3>2 DEF Unseen, Beside, roundsIds, roundsOf, ids
    <3> QED BY <1>2, <2>3, <3>1, <3>3 DEF exists, ids
  <2>4. CASE e.entityType = "FEEDBACK"
    <3>1. PICK f \in feedback : f.id = e.entityId
      BY <2>1, <2>4 DEF exists, ids
    <3>2. at # start(c) + 2 /\ at # start(c) + 3 /\ at # start(c) + 4
      BY <1>1, <1>3
    <3>3. ASSUME NEW i \in interview, i.app \in applicationsIds(c), f.round = i.id PROVE FALSE
      BY <1>6, <2>4, <3>1, <3>2, <3>3 DEF Unseen, Beside
    <3>4. f.round \notin roundsIds(c)
      BY <3>3 DEF roundsIds, roundsOf, ids
    <3> QED BY <1>2, <2>4, <3>1, <3>4 DEF exists, ids
  <2> QED BY <2>1, <2>2, <2>3, <2>4 DEF Entry
<1>12. Places' /\ UnseenIsBeside'
  <2>1. Places'
    BY <1>1, <1>2, <1>3, <1>4, <1>5 DEF Places, NothingDoomed
  <2>2. UnseenIsBeside'
    BY <1>4 DEF UnseenIsBeside
  <2> QED BY <2>1, <2>2
<1>13. Traces'
  <2> SUFFICES ASSUME NEW a \in application' PROVE traced(a)' \/ Unsettled(a.candidate)'
    BY DEF Traces
  <2>1. a \in application /\ a.candidate # c
    BY <1>2, <1>7
  <2>2. CASE Unsettled(a.candidate)
    <3>1. a.candidate \in Seeded /\ at =< start(a.candidate) + 5
      BY <1>1, <2>2 DEF Unsettled
    <3>2. at' =< start(a.candidate) + 5
      BY <1>1, <1>2, <2>1, <3>1, StartsAre
    <3> QED BY <1>1, <1>2, <3>1, <3>2 DEF Unsettled
  <2>3. CASE traced(a)
    BY <1>2, <2>1, <2>3, OthersAreKept
  <2> QED BY <2>1, <2>2, <2>3 DEF IInv, Traces
<1>14. Progress'
  <2> SUFFICES ASSUME ~disturbed PROVE SoFar'
    BY <1>1, <1>2 DEF Progress
  <2>1. SoFar
    BY <1>1 DEF IInv, Progress
  <2>2. \A n \in 1 .. 5 : account'[SeedAccounts[n]] = seedRole[SeedAccounts[n]]
    BY <1>1, <1>2, <1>3, <2>1 DEF SoFar
  <2>3. \A n \in 1 .. 3 : SeedRoles[n].title \in {r.title : r \in role'}
    BY <1>1, <1>2, <1>3, <2>1 DEF SoFar
  <2>4. profile'["candidate"] = "seeded"
    BY <1>1, <1>2, <1>3, <2>1 DEF SoFar
  <2>5. ASSUME NEW s \in Seeded, NEW k \in 0 .. 3, k =< Len(plans(s)), transactionAt(s, k) < at',
               k < Len(plans(s)) => at' =< transactionAt(s, k + 1)
        PROVE  Restored(s, k)'
    <3>1. \/ s = "candidate" /\ transactionAt(s, k) = 19 + 2 * k
          \/ s = "candidate2" /\ transactionAt(s, k) = 31 + 2 * k /\ k =< 1
      BY <2>5, ResetsAre
    <3>2. (at = 19 /\ at' = 20 /\ c = "candidate") \/ (at = 31 /\ at' = 32 /\ c = "candidate2")
      BY <1>1, <1>2, StartsAre
    <3>3. CASE s = c
      <4>1. k = 0
        BY <2>5, <3>1, <3>2, <3>3
      <4>2. applicationsOf(c)' = {}
        BY <1>2, <1>7 DEF applicationsOf
      <4> QED BY <3>3, <4>1, <4>2, NoneLeft
    <3>4. CASE s # c
      <4>1. transactionAt(s, k) < at
        BY <2>5, <3>1, <3>2, <3>4
      <4>2. k < Len(plans(s)) => at =< transactionAt(s, k + 1)
        <5>1. transactionAt(s, k + 1) \in Nat
          BY StartsAre DEF transactionAt
        <5>2. PICK x : x = transactionAt(s, k + 1) /\ x \in Nat
          BY <5>1
        <5>3. at' =< x => at =< x
          BY <1>2, <1>3, <5>2
        <5> QED BY <2>5, <5>2, <5>3
      <4>3. Restored(s, k)
        BY <2>1, <2>5, <4>1, <4>2 DEF SoFar
      <4>4. applicationsOf(s)' = applicationsOf(s)
        BY <1>2, <1>7, <3>4 DEF applicationsOf
      <4>5. \A a \in applicationsOf(s) : titleOf(a)' = titleOf(a)
        BY <1>2 DEF titleOf
      <4>6. \A a \in applicationsOf(s) : asPlanned(a)'
        <5>1. ASSUME NEW a \in applicationsOf(s) PROVE asPlanned(a)'
          <6>1. a \in application /\ a \in application' /\ a.candidate # c
            BY <1>7, <3>4 DEF applicationsOf
          <6>2. asPlanned(a)
            BY <4>3 DEF Restored
          <6> QED BY <1>2, <6>1, <6>2, OthersAreKept
        <5> QED BY <5>1
      <4> QED BY <4>3, <4>4, <4>5, <4>6 DEF Restored
    <3> QED BY <3>3, <3>4
  <2>6. \A s \in Seeded : \A n \in 1 .. Len(plans(s)) : at' # transactionAt(s, n)
    <3> SUFFICES ASSUME NEW s \in Seeded, NEW n \in 1 .. Len(plans(s)) PROVE at' # transactionAt(s, n)
      OBVIOUS
    <3>1. \/ s = "candidate" /\ n \in 1 .. 3 /\ transactionAt(s, n) = 19 + 2 * n
          \/ s = "candidate2" /\ n = 1 /\ transactionAt(s, n) = 33
      BY TransactionsAre
    <3>2. (\A k \in 1 .. 3 : at' # 19 + 2 * k) /\ at' # 33
      <4>1. at' = 20 \/ at' = 32
        BY <1>3
      <4> QED BY <4>1
    <3> QED BY <3>1, <3>2, Zenon
  <2> QED BY <2>2, <2>3, <2>4, <2>5, <2>6 DEF SoFar
<1> QED BY <1>8, <1>9, <1>10, <1>11, <1>12, <1>13, <1>14 DEF IInv

-----------------------------------------------------------------------------
(***************************************************************************)
(* Tables put together, of which no two use the same id: a transaction's   *)
(* rows and those there are, or all that a database was seeded with.       *)
(***************************************************************************)
namedIn(log, type) == {entry.entityId : entry \in {e \in log : e.entityType = type}}
EntriesIn(log, type, id) == {<<e.action, e.about>> : e \in {x \in log : x.entityType = type /\ x.entityId = id}}
TracedIn(t, a) ==
  /\ EntriesIn(t.auditLog, "APPLICATION", a.id) = {<<told(row), Null>> : row \in ToSet(Tail(a.history))}
  /\ \A i \in t.interview : i.app = a.id =>
       /\ EntriesIn(t.auditLog, "INTERVIEW", i.id) =
            {<<"INTERVIEW_CREATED", Null>>} \cup {<<"INTERVIEWER_ASSIGNED", u>> : u \in i.panel}
       /\ \A f \in t.feedback : f.round = i.id => EntriesIn(t.auditLog, "FEEDBACK", f.id) # {}
ExistsIn(t, e) ==
  \/ e.entityType = "APPLICATION" /\ e.entityId \in ids(t.application)
  \/ e.entityType = "INTERVIEW" /\ e.entityId \in ids(t.interview)
  \/ e.entityType = "FEEDBACK" /\ e.entityId \in ids(t.feedback)

Sound(t) ==
  /\ t.application \subseteq ApplicationRows /\ t.interview \subseteq InterviewRows /\ t.feedback \subseteq FeedbackRows
  /\ \A e \in t.auditLog : Entry(e)
  /\ Keyed(t.application) /\ Keyed(t.interview) /\ Keyed(t.feedback)
  /\ \A i \in t.interview : i.app \in ids(t.application)
  /\ \A f \in t.feedback : f.round \in ids(t.interview)
  /\ \A a \in t.application : Told(a)

usedApplications(t) == ids(t.application) \cup namedIn(t.auditLog, "APPLICATION")
usedInterviews(t) == ids(t.interview) \cup namedIn(t.auditLog, "INTERVIEW")
usedFeedback(t) == ids(t.feedback) \cup namedIn(t.auditLog, "FEEDBACK")
Apart(t, u) ==
  /\ \A id \in usedApplications(t) : id \notin usedApplications(u)
  /\ \A id \in usedInterviews(t) : id \notin usedInterviews(u)
  /\ \A id \in usedFeedback(t) : id \notin usedFeedback(u)

Together(S) ==
  [application |-> UNION {t.application : t \in S}, interview |-> UNION {t.interview : t \in S},
   feedback |-> UNION {t.feedback : t \in S}, auditLog |-> UNION {t.auditLog : t \in S}]

\* Sound tables that use different ids are sound together,
LEMMA TogetherIsSound ==
  ASSUME NEW S, \A t \in S : Sound(t), \A t, u \in S : t = u \/ Apart(t, u), NEW all, all = Together(S)
  PROVE  Sound(all)
<1>1. /\ \A x : x \in all.application <=> \E t \in S : x \in t.application
      /\ \A x : x \in all.interview <=> \E t \in S : x \in t.interview
      /\ \A x : x \in all.feedback <=> \E t \in S : x \in t.feedback
      /\ \A x : x \in all.auditLog <=> \E t \in S : x \in t.auditLog
  BY DEF Together
<1>2. /\ all.application \subseteq ApplicationRows /\ all.interview \subseteq InterviewRows
      /\ all.feedback \subseteq FeedbackRows
  BY <1>1 DEF Sound
<1>3. (\A e \in all.auditLog : Entry(e)) /\ \A a \in all.application : Told(a)
  BY <1>1, Zenon DEF Sound
<1>4. Keyed(all.application)
  <2> SUFFICES ASSUME NEW x \in all.application, NEW y \in all.application, x.id = y.id PROVE x = y
    BY DEF Keyed
  <2>1. PICK t \in S, u \in S : x \in t.application /\ y \in u.application
    BY <1>1
  <2>2. x.id \in usedApplications(t) /\ x.id \in usedApplications(u)
    BY <2>1 DEF usedApplications, ids
  <2>3. t = u
    BY <2>2 DEF Apart
  <2> QED BY <2>1, <2>3 DEF Sound, Keyed
<1>5. Keyed(all.interview)
  <2> SUFFICES ASSUME NEW x \in all.interview, NEW y \in all.interview, x.id = y.id PROVE x = y
    BY DEF Keyed
  <2>1. PICK t \in S, u \in S : x \in t.interview /\ y \in u.interview
    BY <1>1
  <2>2. x.id \in usedInterviews(t) /\ x.id \in usedInterviews(u)
    BY <2>1 DEF usedInterviews, ids
  <2>3. t = u
    BY <2>2 DEF Apart
  <2> QED BY <2>1, <2>3 DEF Sound, Keyed
<1>6. Keyed(all.feedback)
  <2> SUFFICES ASSUME NEW x \in all.feedback, NEW y \in all.feedback, x.id = y.id PROVE x = y
    BY DEF Keyed
  <2>1. PICK t \in S, u \in S : x \in t.feedback /\ y \in u.feedback
    BY <1>1
  <2>2. x.id \in usedFeedback(t) /\ x.id \in usedFeedback(u)
    BY <2>1 DEF usedFeedback, ids
  <2>3. t = u
    BY <2>2 DEF Apart
  <2> QED BY <2>1, <2>3 DEF Sound, Keyed
<1>7. \A i \in all.interview : i.app \in ids(all.application)
  BY <1>1 DEF Sound, ids
<1>8. \A f \in all.feedback : f.round \in ids(all.interview)
  BY <1>1 DEF Sound, ids
<1> QED BY <1>2, <1>3, <1>4, <1>5, <1>6, <1>7, <1>8 DEF Sound

\* and each keeps its trace.
LEMMA TogetherIsTraced ==
  ASSUME NEW S, \A t \in S : Sound(t), \A t, u \in S : t = u \/ Apart(t, u), NEW all, all = Together(S),
         NEW t \in S, NEW a \in t.application, TracedIn(t, a)
  PROVE  TracedIn(all, a)
<1>1. /\ \A x : x \in all.interview <=> \E u \in S : x \in u.interview
      /\ \A x : x \in all.feedback <=> \E u \in S : x \in u.feedback
      /\ \A x : x \in all.auditLog <=> \E u \in S : x \in u.auditLog
  BY DEF Together
<1>2. /\ \A id \in usedApplications(t) : EntriesIn(all.auditLog, "APPLICATION", id)
         = EntriesIn(t.auditLog, "APPLICATION", id)
      /\ \A id \in usedInterviews(t) : EntriesIn(all.auditLog, "INTERVIEW", id) = EntriesIn(t.auditLog, "INTERVIEW", id)
      /\ \A id \in usedFeedback(t) : EntriesIn(all.auditLog, "FEEDBACK", id) = EntriesIn(t.auditLog, "FEEDBACK", id)
  <2>1. \A u \in S, id \in usedApplications(t) : \A e \in u.auditLog : e.entityType = "APPLICATION"
        /\ e.entityId = id => e \in t.auditLog
    BY DEF Apart, usedApplications, namedIn
  <2>2. \A u \in S, id \in usedInterviews(t) : \A e \in u.auditLog : e.entityType = "INTERVIEW" /\ e.entityId = id =>
        e \in t.auditLog
    BY DEF Apart, usedInterviews, namedIn
  <2>3. \A u \in S, id \in usedFeedback(t) : \A e \in u.auditLog : e.entityType = "FEEDBACK" /\ e.entityId = id =>
        e \in t.auditLog
    BY DEF Apart, usedFeedback, namedIn
  <2>4. \A id \in usedApplications(t) :
          {x \in all.auditLog : x.entityType = "APPLICATION" /\ x.entityId = id}
            = {x \in t.auditLog : x.entityType = "APPLICATION" /\ x.entityId = id}
    BY <1>1, <2>1
  <2>5. \A id \in usedInterviews(t) :
          {x \in all.auditLog : x.entityType = "INTERVIEW" /\ x.entityId = id}
            = {x \in t.auditLog : x.entityType = "INTERVIEW" /\ x.entityId = id}
    BY <1>1, <2>2
  <2>6. \A id \in usedFeedback(t) :
          {x \in all.auditLog : x.entityType = "FEEDBACK" /\ x.entityId = id}
            = {x \in t.auditLog : x.entityType = "FEEDBACK" /\ x.entityId = id}
    BY <1>1, <2>3
  <2> QED BY <2>4, <2>5, <2>6, Zenon DEF EntriesIn
<1>3. a.id \in usedApplications(t)
  BY DEF usedApplications, ids
<1>4. \A i \in all.interview : i.app = a.id => i \in t.interview /\ i.id \in usedInterviews(t)
  <2> SUFFICES ASSUME NEW u \in S, NEW i \in u.interview, i.app = a.id
      PROVE i \in t.interview /\ i.id \in usedInterviews(t)
    BY <1>1
  <2>1. a.id \in usedApplications(u)
    BY DEF Sound, usedApplications, ids
  <2>2. u = t
    BY <1>3, <2>1 DEF Apart
  <2> QED BY <2>2 DEF usedInterviews, ids
<1>5. \A f \in all.feedback : \A id \in ids(t.interview) : f.round = id => f \in t.feedback /\ f.id \in usedFeedback(t)
  <2> SUFFICES ASSUME NEW u \in S, NEW f \in u.feedback, f.round \in ids(t.interview)
      PROVE f \in t.feedback /\ f.id \in usedFeedback(t)
    BY <1>1
  <2>1. f.round \in usedInterviews(u) /\ f.round \in usedInterviews(t)
    BY DEF Sound, usedInterviews
  <2>2. u = t
    BY <2>1 DEF Apart
  <2> QED BY <2>2 DEF usedFeedback, ids
<1>6. EntriesIn(all.auditLog, "APPLICATION", a.id) = {<<told(row), Null>> : row \in ToSet(Tail(a.history))}
  BY <1>2, <1>3 DEF TracedIn
<1>7. ASSUME NEW i \in all.interview, i.app = a.id
      PROVE  /\ EntriesIn(all.auditLog, "INTERVIEW", i.id) =
                  {<<"INTERVIEW_CREATED", Null>>} \cup {<<"INTERVIEWER_ASSIGNED", u>> : u \in i.panel}
             /\ \A f \in all.feedback : f.round = i.id => EntriesIn(all.auditLog, "FEEDBACK", f.id) # {}
  <2>1. i \in t.interview /\ i.id \in usedInterviews(t) /\ i.id \in ids(t.interview)
    BY <1>4, <1>7 DEF ids
  <2>2. EntriesIn(all.auditLog, "INTERVIEW", i.id)
        = {<<"INTERVIEW_CREATED", Null>>} \cup {<<"INTERVIEWER_ASSIGNED", u>> : u \in i.panel}
    BY <1>2, <1>7, <2>1 DEF TracedIn
  <2>3. ASSUME NEW f \in all.feedback, f.round = i.id PROVE EntriesIn(all.auditLog, "FEEDBACK", f.id) # {}
    <3>1. f \in t.feedback /\ f.id \in usedFeedback(t)
      BY <1>5, <2>1, <2>3
    <3> QED BY <1>2, <1>7, <2>1, <2>3, <3>1 DEF TracedIn
  <2> QED BY <2>2, <2>3
<1> QED BY <1>6, <1>7 DEF TracedIn

-----------------------------------------------------------------------------
(***************************************************************************)
(* The rows of one transaction.                                            *)
(***************************************************************************)
LEMMA PlanTitles ==
  ASSUME NEW c \in Seeded, NEW k \in 1 .. Len(plans(c))
  PROVE  \/ c = "candidate" /\ k = 1 /\ plans(c)[k] = [title |-> "Backend", status |-> "ACTIVE", stage |-> "INTERVIEW"]
         \/ c = "candidate" /\ k = 2 /\ plans(c)[k] = [title |-> "Designer", status |-> "ACTIVE", stage |-> "APPLIED"]
         \/ c = "candidate" /\ k = 3 /\ plans(c)[k] = [title |-> "Manager", status |-> "REJECTED", stage |-> "SCREEN"]
         \/ c = "candidate2" /\ k = 1 /\ plans(c)[k] = [title |-> "Manager", status |-> "ACTIVE", stage |-> "APPLIED"]
<1>1. /\ SeedApplications[1] = [title |-> "Backend", status |-> "ACTIVE", stage |-> "INTERVIEW"]
      /\ SeedApplications[2] = [title |-> "Designer", status |-> "ACTIVE", stage |-> "APPLIED"]
      /\ SeedApplications[3] = [title |-> "Manager", status |-> "REJECTED", stage |-> "SCREEN"]
      /\ SeedOtherApplications[1] = [title |-> "Manager", status |-> "ACTIVE", stage |-> "APPLIED"]
  BY DEF SeedApplications, SeedOtherApplications
<1>2. plans("candidate") = SeedApplications /\ plans("candidate2") = SeedOtherApplications
  BY PlansAre DEF plans
<1>3. (c = "candidate" /\ k \in 1 .. 3) \/ (c = "candidate2" /\ k = 1)
  BY TransactionsAre
<1>4. \A n \in 1 .. 3 : n = 1 \/ n = 2 \/ n = 3
  OBVIOUS
<1> QED BY <1>1, <1>2, <1>3, <1>4, Zenon

LEMMA PlanIs ==
  ASSUME NEW c \in Seeded, NEW k \in 1 .. Len(plans(c)), NEW title, title = plans(c)[k].title
  PROVE  planned(c, title) = plans(c)[k] /\ title \in Titles
<1>1. /\ ToSet(plans("candidate")) = {[title |-> "Backend", status |-> "ACTIVE", stage |-> "INTERVIEW"],
           [title |-> "Designer", status |-> "ACTIVE", stage |-> "APPLIED"],
             [title |-> "Manager", status |-> "REJECTED", stage |-> "SCREEN"]}
      /\ ToSet(plans("candidate2")) = {[title |-> "Manager", status |-> "ACTIVE", stage |-> "APPLIED"]}
  <2>1. plans("candidate") = SeedApplications /\ plans("candidate2") = SeedOtherApplications
    BY PlansAre DEF plans
  <2>2. ToSet(SeedApplications) = {[title |-> "Backend", status |-> "ACTIVE", stage |-> "INTERVIEW"],
           [title |-> "Designer", status |-> "ACTIVE", stage |-> "APPLIED"],
             [title |-> "Manager", status |-> "REJECTED", stage |-> "SCREEN"]}
    BY DEF ToSet, SeedApplications
  <2>3. ToSet(SeedOtherApplications) = {[title |-> "Manager", status |-> "ACTIVE", stage |-> "APPLIED"]}
    BY DEF ToSet, SeedOtherApplications
  <2> QED BY <2>1, <2>2, <2>3
<1>2. plans(c)[k] \in ToSet(plans(c)) /\ \A plan \in ToSet(plans(c)) : plan.title = title => plan = plans(c)[k]
  BY <1>1, PlanTitles
<1>3. planned(c, title) = CHOOSE plan \in ToSet(plans(c)) : plan.title = title
  BY DEF planned, plans
<1>4. title \in Titles
  BY PlanTitles, TitlesAre
<1> QED BY <1>2, <1>3, <1>4

LEMMA PairIsSeq ==
  ASSUME NEW S, NEW x \in S, NEW y \in S
  PROVE  <<x, y>> \in Seq(S)
OBVIOUS

\* Where a planned timeline leaves the application is where it is planned.
LEMMA TimelineIs ==
  ASSUME NEW c \in Seeded, NEW k \in 1 .. Len(plans(c)), NEW title, title = plans(c)[k].title,
         NEW timeline, timeline = SeedCandidates[c].timelines[title]
  PROVE  /\ timeline \in Seq(HistoryRows)
         /\ Len(timeline) = 0 => plans(c)[k].stage = "APPLIED" /\ plans(c)[k].status = "ACTIVE"
         /\ Len(timeline) # 0 => timeline[Len(timeline)].stage = plans(c)[k].stage
            /\ timeline[Len(timeline)].status = plans(c)[k].status
         /\ plans(c)[k].stage \in Stages /\ plans(c)[k].status \in Statuses
<1>1. /\ SeedTimelines["Backend"] = <<HistoryRow("SCREEN", "ACTIVE", FALSE), HistoryRow("INTERVIEW", "ACTIVE", FALSE)>>
      /\ SeedTimelines["Designer"] = <<>>
      /\ SeedTimelines["Manager"] = <<HistoryRow("SCREEN", "ACTIVE", TRUE), HistoryRow("SCREEN", "REJECTED", FALSE)>>
      /\ NoTimelines["Manager"] = <<>>
  BY DEF SeedTimelines, NoTimelines
<1>2. SeedCandidates["candidate"].timelines = SeedTimelines /\ SeedCandidates["candidate2"].timelines = NoTimelines
  BY PlansAre
<1>3. \/ c = "candidate" /\ title = "Backend" /\ plans(c)[k].stage = "INTERVIEW" /\ plans(c)[k].status = "ACTIVE"
      \/ c = "candidate" /\ title = "Designer" /\ plans(c)[k].stage = "APPLIED" /\ plans(c)[k].status = "ACTIVE"
      \/ c = "candidate" /\ title = "Manager" /\ plans(c)[k].stage = "SCREEN" /\ plans(c)[k].status = "REJECTED"
      \/ c = "candidate2" /\ title = "Manager" /\ plans(c)[k].stage = "APPLIED" /\ plans(c)[k].status = "ACTIVE"
  BY PlanTitles
<1>4. plans(c)[k].stage \in Stages /\ plans(c)[k].status \in Statuses
  BY <1>3 DEF Stages, Statuses
<1>5. CASE c = "candidate" /\ title = "Backend"
  <2>1. PICK x, y : /\ x = HistoryRow("SCREEN", "ACTIVE", FALSE) /\ y = HistoryRow("INTERVIEW", "ACTIVE", FALSE)
                    /\ x \in HistoryRows /\ y \in HistoryRows /\ y.stage = "INTERVIEW" /\ y.status = "ACTIVE"
    <3>1. HistoryRow("SCREEN", "ACTIVE", FALSE) \in HistoryRows
          /\ HistoryRow("INTERVIEW", "ACTIVE", FALSE) \in HistoryRows
          /\ HistoryRow("INTERVIEW", "ACTIVE", FALSE).stage = "INTERVIEW"
             /\ HistoryRow("INTERVIEW", "ACTIVE", FALSE).status = "ACTIVE"
      BY DEF HistoryRow, HistoryRows, Stages, Statuses
    <3> QED BY <3>1
  <2>2. timeline = <<x, y>>
    BY <1>1, <1>2, <1>5, <2>1
  <2>3. timeline \in Seq(HistoryRows)
    BY <2>1, <2>2, PairIsSeq, Zenon
  <2>5. Len(timeline) # 0 /\ timeline[Len(timeline)] = y
    <3>1. Len(timeline) = 2 /\ 2 # 0
      BY <2>2
    <3>2. timeline[2] = y
      BY <2>2
    <3> QED BY <3>1, <3>2, Zenon
  <2>4. plans(c)[k].stage = "INTERVIEW" /\ plans(c)[k].status = "ACTIVE"
    BY <1>3, <1>5
  <2> QED BY <1>4, <2>1, <2>3, <2>4, <2>5, Zenon
<1>6. CASE c = "candidate" /\ title = "Manager"
  <2>1. PICK x, y : /\ x = HistoryRow("SCREEN", "ACTIVE", TRUE) /\ y = HistoryRow("SCREEN", "REJECTED", FALSE)
                    /\ x \in HistoryRows /\ y \in HistoryRows /\ y.stage = "SCREEN" /\ y.status = "REJECTED"
    <3>1. HistoryRow("SCREEN", "ACTIVE", TRUE) \in HistoryRows /\ HistoryRow("SCREEN", "REJECTED", FALSE) \in HistoryRows
          /\ HistoryRow("SCREEN", "REJECTED", FALSE).stage = "SCREEN"
             /\ HistoryRow("SCREEN", "REJECTED", FALSE).status = "REJECTED"
      BY DEF HistoryRow, HistoryRows, Stages, Statuses
    <3> QED BY <3>1
  <2>2. timeline = <<x, y>>
    BY <1>1, <1>2, <1>6, <2>1
  <2>3. timeline \in Seq(HistoryRows)
    BY <2>1, <2>2, PairIsSeq, Zenon
  <2>5. Len(timeline) # 0 /\ timeline[Len(timeline)] = y
    <3>1. Len(timeline) = 2 /\ 2 # 0
      BY <2>2
    <3>2. timeline[2] = y
      BY <2>2
    <3> QED BY <3>1, <3>2, Zenon
  <2>4. plans(c)[k].stage = "SCREEN" /\ plans(c)[k].status = "REJECTED"
    BY <1>3, <1>6
  <2> QED BY <1>4, <2>1, <2>3, <2>4, <2>5, Zenon
<1>7. CASE title = "Designer" \/ c = "candidate2"
  <2>1. plans(c)[k].stage = "APPLIED" /\ plans(c)[k].status = "ACTIVE"
    BY <1>3, <1>7
  <2>2. timeline = <<>>
    BY <1>1, <1>2, <1>3, <1>7
  <2>3. timeline \in Seq(HistoryRows) /\ Len(timeline) = 0
    BY <2>2
  <2> QED BY <1>4, <2>1, <2>3
<1> QED BY <1>3, <1>5, <1>6, <1>7

\* The planned rounds: their panels, and their authors' seats.
LEMMA RoundsAre ==
  ASSUME NEW c \in Seeded
  PROVE  /\ \A title : plannedRounds(c, title) \subseteq 1 .. 2
         /\ \A title : \A n \in plannedRounds(c, title) :
              /\ SeedCandidates[c].interviews[n].panel \subseteq Accounts
              /\ SeedCandidates[c].interviews[n].authors \subseteq Accounts
<1>1. DOMAIN SeedInterviews = 1 .. 2 /\ \A n \in 1 .. 2 : SeedInterviews[n].panel \subseteq Accounts
      /\ SeedInterviews[n].authors \subseteq Accounts
  BY DEF SeedInterviews, Round, Accounts
<1>2. DOMAIN SeedCandidates["candidate2"].interviews = {}
  BY PlansAre
<1> QED BY <1>1, <1>2, PlansAre DEF plannedRounds

LEMMA PlannedHistoryIs ==
  ASSUME NEW c \in Seeded, NEW k \in 1 .. Len(plans(c)), NEW title, title = plans(c)[k].title,
         NEW history, history = plannedHistory(c, title)
  PROVE  /\ history \in Seq(HistoryRows) /\ history # <<>>
         /\ Last(history).stage = plans(c)[k].stage /\ Last(history).status = plans(c)[k].status
         /\ Tail(history) = SeedCandidates[c].timelines[title]
<1>1. PICK t : t = SeedCandidates[c].timelines[title]
  OBVIOUS
<1>2. /\ t \in Seq(HistoryRows)
      /\ Len(t) = 0 => plans(c)[k].stage = "APPLIED" /\ plans(c)[k].status = "ACTIVE"
      /\ Len(t) # 0 => t[Len(t)].stage = plans(c)[k].stage /\ t[Len(t)].status = plans(c)[k].status
  BY <1>1, TimelineIs
<1>3. EntryRow \in HistoryRows /\ EntryRow.stage = "APPLIED" /\ EntryRow.status = "ACTIVE"
  BY DEF EntryRow, HistoryRow, HistoryRows, Stages, Statuses
<1>4. PICK e : e = EntryRow /\ e \in HistoryRows
  BY <1>3
<1>5. history = <<e>> \o t
  BY <1>1, <1>4 DEF plannedHistory
<1>6. history \in Seq(HistoryRows) /\ Len(history) = Len(t) + 1 /\ history[1] = e
      /\ \A n \in 1 .. Len(t) : history[n + 1] = t[n]
  <2>1. t \in Seq(HistoryRows)
    BY <1>2
  <2> QED BY <1>4, <1>5, <2>1
<1>7. Tail(history) = t
  <2>1. t \in Seq(HistoryRows)
    BY <1>2
  <2> QED BY <1>4, <1>5, <2>1
<1>8. Last(history) = history[Len(t) + 1] /\ history # <<>>
  <2>1. Len(t) \in Nat
    BY <1>2
  <2>2. Last(history) = history[Len(t) + 1]
    BY <1>6 DEF Last
  <2>3. history # <<>>
    BY <1>6, <2>1
  <2> QED BY <2>2, <2>3
<1>9. CASE Len(t) = 0
  <2>1. history[Len(t) + 1] = e
    BY <1>6, <1>9
  <2> QED BY <1>1, <1>2, <1>3, <1>4, <1>6, <1>7, <1>8, <1>9, <2>1
<1>10. CASE Len(t) # 0
  <2>1. Len(t) \in 1 .. Len(t)
    BY <1>2, <1>10
  <2>2. history[Len(t) + 1] = t[Len(t)]
    BY <1>6, <2>1
  <2> QED BY <1>1, <1>2, <1>6, <1>7, <1>8, <1>10, <2>2
<1> QED BY <1>9, <1>10

LEMMA AuditRowIs ==
  ASSUME NEW type, NEW id, NEW action, NEW about, NEW writer, NEW e, e = AuditRow(type, id, action, about, writer)
  PROVE  e.entityType = type /\ e.entityId = id /\ e.action = action /\ e.about = about /\ e.by = writer
BY DEF AuditRow

LEMMA SeatIds ==
  ASSUME NEW a \in Nat, NEW m \in 1 .. 2, NEW n \in 1 .. 2, NEW p \in 1 .. 5, NEW q \in 1 .. 5
  PROVE  /\ a + 5 * (m - 1) + p \in a + 1 .. a + 10
         /\ a + 5 * (m - 1) + p = a + 5 * (n - 1) + q => m = n /\ p = q
OBVIOUS

\* They are traced as they stand, and as planned.
AsWritten(w, c, title, roleId, app, round, assessment) ==
  /\ Sound(w)
  /\ \E a : /\ w.application = {a} /\ a.id = app /\ a.candidate = c /\ a.role = roleId
            /\ a.stage = planned(c, title).stage /\ a.status = planned(c, title).status
            /\ a.history = plannedHistory(c, title) /\ TracedIn(w, a)
  /\ \A i \in w.interview : i.app = app /\ \E n \in plannedRounds(c, title) : i.id = round + n
  /\ \A f \in w.feedback : f.id \in assessment + 1 .. assessment + 10
     /\ \E n \in plannedRounds(c, title) : f.round = round + n
  /\ \A e \in w.auditLog : e.by = "script" /\ ExistsIn(w, e)
  /\ {<<i.panel, {f.author : f \in {x \in w.feedback : x.round = i.id}}>> : i \in w.interview}
       = {<<SeedCandidates[c].interviews[n].panel, SeedCandidates[c].interviews[n].authors>> :
       n \in plannedRounds(c, title)}

\* What one transaction writes is sound, traced and as planned.
LEMMA WrittenIs ==
  ASSUME NEW c \in Seeded, NEW k \in 1 .. Len(plans(c)), NEW title, title = plans(c)[k].title,
         NEW roleId \in Nat, NEW app \in Nat, NEW round \in Nat, NEW assessment \in Nat,
         NEW w, w = Written(c, title, roleId, app, round, assessment)
  PROVE  AsWritten(w, c, title, roleId, app, round, assessment)
<1> DEFINE rounds == plannedRounds(c, title)
           panel(n) == SeedCandidates[c].interviews[n].panel
           authors(n) == SeedCandidates[c].interviews[n].authors
           seatId(n, m) == assessment + 5 * (n - 1) + m
           Seat(n, m) == [id |-> seatId(n, m), round |-> round + n, author |-> SeedAccounts[m]]
           RoundRow(n) == [id |-> round + n, app |-> app, panel |-> panel(n)]
<1>1. rounds \subseteq 1 .. 2 /\ \A n \in rounds : panel(n) \subseteq Accounts /\ authors(n) \subseteq Accounts
  BY RoundsAre
<1>2. PICK timeline : timeline = SeedCandidates[c].timelines[title]
  OBVIOUS
<1>0. PICK history : history = plannedHistory(c, title)
  OBVIOUS
<1>3. /\ history \in Seq(HistoryRows) /\ history # <<>>
      /\ Last(history).stage = plans(c)[k].stage /\ Last(history).status = plans(c)[k].status
      /\ Tail(history) = timeline
  BY <1>0, <1>2, PlannedHistoryIs
<1>4. planned(c, title) = plans(c)[k] /\ plans(c)[k].stage \in Stages /\ plans(c)[k].status \in Statuses
      /\ c \in Candidates
  BY PlanIs, TimelineIs DEF Candidates
<1>5. PICK a : a = [id |-> app, candidate |-> c, role |-> roleId, status |-> planned(c, title).status,
                    stage |-> planned(c, title).stage, history |-> history]
  OBVIOUS
<1>6. /\ a.id = app /\ a.candidate = c /\ a.role = roleId /\ a.history = history
      /\ a.stage = planned(c, title).stage /\ a.status = planned(c, title).status
  BY <1>5
<1>7. a \in ApplicationRows
  BY <1>3, <1>4, <1>5 DEF ApplicationRows
<1>8. Told(a)
  BY <1>3, <1>4, <1>6 DEF Told
<1>9. w.application = {a}
  BY <1>0, <1>5 DEF Written
<1>10. \A i : i \in w.interview <=> \E n \in rounds : i = RoundRow(n)
  BY DEF Written
<1>11. \A f : f \in w.feedback <=> \E n \in rounds, m \in 1 .. 5 : SeedAccounts[m] \in authors(n) /\ f = Seat(n, m)
  <2>1. Len(SeedAccounts) = 5 /\ DOMAIN SeedAccounts = 1 .. 5
    BY AccountsAre
  <2>2. \A s : s \in seats(c, title) <=> \E n \in rounds, m \in 1 .. 5 : s = <<n, m>> /\ SeedAccounts[m] \in authors(n)
    BY <2>1 DEF seats
  <2>3. w.feedback = {[id |-> assessment + Len(SeedAccounts) * (s[1] - 1) + s[2], round |-> round + s[1],
        author |-> SeedAccounts[s[2]]]
                        : s \in seats(c, title)}
    BY DEF Written
  <2>4. w.feedback = {Seat(s[1], s[2]) : s \in seats(c, title)}
    BY <2>1, <2>3
  <2>5. ASSUME NEW f \in w.feedback PROVE \E n \in rounds, m \in 1 .. 5 : SeedAccounts[m] \in authors(n) /\ f = Seat(n, m)
    <3> HIDE DEF Seat, rounds
    <3>1. PICK s \in seats(c, title) : f = Seat(s[1], s[2])
      BY <2>4, <2>5
    <3>2. PICK n \in rounds, m \in 1 .. 5 : s = <<n, m>> /\ SeedAccounts[m] \in authors(n)
      BY <2>2
    <3>3. s[1] = n /\ s[2] = m
      BY <3>2
    <3> QED BY <3>1, <3>2, <3>3
  <2>6. ASSUME NEW n \in rounds, NEW m \in 1 .. 5, SeedAccounts[m] \in authors(n) PROVE Seat(n, m) \in w.feedback
    <3> HIDE DEF Seat
    <3>1. PICK s \in seats(c, title) : s = <<n, m>>
      BY <2>2, <2>6
    <3>2. s[1] = n /\ s[2] = m
      BY <3>1
    <3> QED BY <2>4, <3>1, <3>2
  <2> HIDE DEF Seat, rounds
  <2> QED BY <2>5, <2>6
<1>12. \A e : e \in w.auditLog <=>
         \/ \E row \in ToSet(timeline) : e = AuditRow("APPLICATION", app, told(row), Null, "script")
         \/ \E n \in rounds : e = AuditRow("INTERVIEW", round + n, "INTERVIEW_CREATED", Null, "script")
         \/ \E n \in rounds : \E u \in panel(n) :
            e = AuditRow("INTERVIEW", round + n, "INTERVIEWER_ASSIGNED", u, "script")
         \/ \E n \in rounds, m \in 1 .. 5 : SeedAccounts[m] \in authors(n)
            /\ e = AuditRow("FEEDBACK", seatId(n, m), "FEEDBACK_SUBMITTED", Null, "script")
  <2>1. Len(SeedAccounts) = 5 /\ DOMAIN SeedAccounts = 1 .. 5
    BY AccountsAre
  <2>2. \A s : s \in seats(c, title) <=> \E n \in rounds, m \in 1 .. 5 : s = <<n, m>> /\ SeedAccounts[m] \in authors(n)
    BY <2>1 DEF seats
  <2> DEFINE A1 == AuditOfHistory(app, SeedCandidates[c].timelines[title], "script")
             A2 == UNION {AuditOfRound(round + n, panel(n), "script") : n \in rounds}
             A3 == {AuditRow("FEEDBACK", assessment + Len(SeedAccounts) * (s[1] - 1) + s[2], "FEEDBACK_SUBMITTED", Null,
               "script") : s \in seats(c, title)}
  <2>3. w.auditLog = (A1 \cup A2) \cup A3
    BY DEF Written
  <2>4. \A e : e \in A1 <=> \E row \in ToSet(timeline) : e = AuditRow("APPLICATION", app, told(row), Null, "script")
    BY <1>2 DEF AuditOfHistory
  <2>5. \A e : e \in A2 <=>
          \/ \E n \in rounds : e = AuditRow("INTERVIEW", round + n, "INTERVIEW_CREATED", Null, "script")
          \/ \E n \in rounds : \E u \in panel(n) :
             e = AuditRow("INTERVIEW", round + n, "INTERVIEWER_ASSIGNED", u, "script")
    BY DEF AuditOfRound
  <2>6. \A e : e \in A3 <=> \E n \in rounds, m \in 1 .. 5 : SeedAccounts[m] \in authors(n)
        /\ e = AuditRow("FEEDBACK", seatId(n, m), "FEEDBACK_SUBMITTED", Null, "script")
    <3>1. A3 = {AuditRow("FEEDBACK", seatId(s[1], s[2]), "FEEDBACK_SUBMITTED", Null, "script") : s \in seats(c, title)}
      BY <2>1
    <3>2. ASSUME NEW e \in A3
          PROVE  \E n \in rounds, m \in 1 .. 5 : SeedAccounts[m] \in authors(n)
                 /\ e = AuditRow("FEEDBACK", seatId(n, m), "FEEDBACK_SUBMITTED", Null, "script")
      <4> HIDE DEF A3, seatId, rounds
      <4>1. PICK s \in seats(c, title) :
            e = AuditRow("FEEDBACK", seatId(s[1], s[2]), "FEEDBACK_SUBMITTED", Null, "script")
        BY <3>1, <3>2
      <4>2. PICK n \in rounds, m \in 1 .. 5 : s = <<n, m>> /\ SeedAccounts[m] \in authors(n)
        BY <2>2
      <4>3. s[1] = n /\ s[2] = m
        BY <4>2
      <4> QED BY <4>1, <4>2, <4>3
    <3>3. ASSUME NEW n \in rounds, NEW m \in 1 .. 5, SeedAccounts[m] \in authors(n)
          PROVE  AuditRow("FEEDBACK", seatId(n, m), "FEEDBACK_SUBMITTED", Null, "script") \in A3
      <4> HIDE DEF A3, seatId
      <4>1. PICK s \in seats(c, title) : s = <<n, m>>
        BY <2>2, <3>3
      <4>2. s[1] = n /\ s[2] = m
        BY <4>1
      <4> QED BY <3>1, <4>1, <4>2
    <3> HIDE DEF A3, seatId, rounds
    <3> QED BY <3>2, <3>3
  <2> HIDE DEF A1, A2, A3, rounds, panel, authors, seatId
  <2> QED BY <2>3, <2>4, <2>5, <2>6
<1>13. /\ \A n \in rounds : RoundRow(n).id = round + n /\ RoundRow(n).app = app /\ RoundRow(n).panel = panel(n)
          /\ n \in 1 .. 2
       /\ \A n \in rounds, m \in 1 .. 5 : Seat(n, m).id = seatId(n, m) /\ Seat(n, m).round = round + n
          /\ Seat(n, m).author = SeedAccounts[m]
  BY <1>1
<1>14. \A n \in rounds, m \in 1 .. 5 : seatId(n, m) \in assessment + 1 .. assessment + 10
  BY <1>1, SeatIds
<1>15. \A n, n1 \in rounds, m, m1 \in 1 .. 5 : seatId(n, m) = seatId(n1, m1) => n = n1 /\ m = m1
  <2> SUFFICES ASSUME NEW n \in rounds, NEW n1 \in rounds, NEW m \in 1 .. 5, NEW m1 \in 1 .. 5,
      seatId(n, m) = seatId(n1, m1)
               PROVE  n = n1 /\ m = m1
    OBVIOUS
  <2>1. n \in 1 .. 2 /\ n1 \in 1 .. 2
    BY <1>1
  <2> QED BY <2>1, SeatIds
<1>30. \A n \in rounds, m \in 1 .. 5 : seatId(n, m) \in Nat
  <2>1. \A id \in assessment + 1 .. assessment + 10 : id \in Nat
    OBVIOUS
  <2> HIDE DEF seatId, rounds
  <2> QED BY <1>14, <2>1
<1>16. \A n, n1 \in rounds : round + n \in Nat /\ (round + n = round + n1 => n = n1)
  BY <1>1
<1>17. \A m \in 1 .. 5 : SeedAccounts[m] \in Accounts
  BY AccountsAre
<1>18. \A n \in rounds : RoundRow(n) \in InterviewRows
  BY <1>1, <1>16 DEF InterviewRows
<1>19. \A n \in rounds, m \in 1 .. 5 : Seat(n, m) \in FeedbackRows
  <2> HIDE DEF seatId
  <2> QED BY <1>16, <1>17, <1>30 DEF FeedbackRows
<1>20. ids(w.application) = {app}
  BY <1>6, <1>9 DEF ids
<1> HIDE DEF rounds, panel, authors, seatId, Seat, RoundRow
<1>21. \A n \in rounds : round + n \in ids(w.interview)
  BY <1>10, <1>13 DEF ids
<1>22. \A n \in rounds, m \in 1 .. 5 : SeedAccounts[m] \in authors(n) => seatId(n, m) \in ids(w.feedback)
  BY <1>11, <1>13 DEF ids
<1>23. Sound(w)
  <2>1. w.application \subseteq ApplicationRows /\ w.interview \subseteq InterviewRows
        /\ w.feedback \subseteq FeedbackRows
    BY <1>7, <1>9, <1>10, <1>11, <1>18, <1>19
  <2>2. \A e \in w.auditLog : Entry(e)
    <3> SUFFICES ASSUME NEW e \in w.auditLog PROVE Entry(e)
      OBVIOUS
    <3>1. CASE \E row \in ToSet(timeline) : e = AuditRow("APPLICATION", app, told(row), Null, "script")
      BY <3>1, AuditRowIs DEF Entry
    <3>2. CASE \/ \E n \in rounds : e = AuditRow("INTERVIEW", round + n, "INTERVIEW_CREATED", Null, "script")
               \/ \E n \in rounds : \E u \in panel(n) :
                  e = AuditRow("INTERVIEW", round + n, "INTERVIEWER_ASSIGNED", u, "script")
      BY <1>16, <3>2, AuditRowIs DEF Entry
    <3>3. CASE \E n \in rounds, m \in 1 .. 5 : SeedAccounts[m] \in authors(n)
               /\ e = AuditRow("FEEDBACK", seatId(n, m), "FEEDBACK_SUBMITTED", Null, "script")
      BY <1>30, <3>3, AuditRowIs DEF Entry
    <3> QED BY <1>12, <3>1, <3>2, <3>3
  <2>3. Keyed(w.application) /\ Keyed(w.interview) /\ Keyed(w.feedback)
    <3>1. Keyed(w.application)
      BY <1>9 DEF Keyed
    <3>2. Keyed(w.interview)
      <4> SUFFICES ASSUME NEW x \in w.interview, NEW y \in w.interview, x.id = y.id PROVE x = y
        BY DEF Keyed
      <4>1. PICK n \in rounds, n1 \in rounds : x = RoundRow(n) /\ y = RoundRow(n1)
        BY <1>10
      <4> QED BY <1>13, <1>16, <4>1
    <3>3. Keyed(w.feedback)
      <4> SUFFICES ASSUME NEW x \in w.feedback, NEW y \in w.feedback, x.id = y.id PROVE x = y
        BY DEF Keyed
      <4>1. PICK n \in rounds, m \in 1 .. 5 : x = Seat(n, m)
        BY <1>11
      <4>2. PICK n1 \in rounds, m1 \in 1 .. 5 : y = Seat(n1, m1)
        BY <1>11
      <4>3. n = n1 /\ m = m1
        BY <1>13, <1>15, <4>1, <4>2
      <4> QED BY <4>1, <4>2, <4>3
    <3> QED BY <3>1, <3>2, <3>3
  <2>4. (\A i \in w.interview : i.app \in ids(w.application)) /\ \A f \in w.feedback : f.round \in ids(w.interview)
    BY <1>10, <1>11, <1>13, <1>20, <1>21
  <2>5. \A x \in w.application : Told(x)
    BY <1>8, <1>9
  <2> QED BY <2>1, <2>2, <2>3, <2>4, <2>5 DEF Sound
<1>24. \A e \in w.auditLog : e.by = "script" /\ ExistsIn(w, e)
  <2> SUFFICES ASSUME NEW e \in w.auditLog PROVE e.by = "script" /\ ExistsIn(w, e)
    OBVIOUS
  <2>1. CASE \E row \in ToSet(timeline) : e = AuditRow("APPLICATION", app, told(row), Null, "script")
    BY <1>20, <2>1, AuditRowIs DEF ExistsIn
  <2>2. CASE \/ \E n \in rounds : e = AuditRow("INTERVIEW", round + n, "INTERVIEW_CREATED", Null, "script")
             \/ \E n \in rounds : \E u \in panel(n) :
                e = AuditRow("INTERVIEW", round + n, "INTERVIEWER_ASSIGNED", u, "script")
    BY <1>21, <2>2, AuditRowIs DEF ExistsIn
  <2>3. CASE \E n \in rounds, m \in 1 .. 5 : SeedAccounts[m] \in authors(n)
             /\ e = AuditRow("FEEDBACK", seatId(n, m), "FEEDBACK_SUBMITTED", Null, "script")
    BY <1>22, <2>3, AuditRowIs DEF ExistsIn
  <2> QED BY <1>12, <2>1, <2>2, <2>3
<1>25. TracedIn(w, a)
  <2>1. EntriesIn(w.auditLog, "APPLICATION", a.id) = {<<told(row), Null>> : row \in ToSet(Tail(a.history))}
    <3>1. ToSet(Tail(a.history)) = ToSet(timeline)
      BY <1>3, <1>6
    <3>2. \A e \in w.auditLog : e.entityType = "APPLICATION" =>
            \E row \in ToSet(timeline) : e = AuditRow("APPLICATION", app, told(row), Null, "script")
      BY <1>12, AuditRowIs
    <3>3. ASSUME NEW e \in w.auditLog, e.entityType = "APPLICATION"
          PROVE  \E row \in ToSet(timeline) : <<e.action, e.about>> = <<told(row), Null>>
      BY <3>2, <3>3, AuditRowIs
    <3>4. ASSUME NEW row \in ToSet(timeline)
          PROVE  \E e \in w.auditLog : e.entityType = "APPLICATION" /\ e.entityId = app
                 /\ <<told(row), Null>> = <<e.action, e.about>>
      <4>1. PICK e : e = AuditRow("APPLICATION", app, told(row), Null, "script")
        OBVIOUS
      <4>2. e \in w.auditLog
        BY <1>12, <4>1
      <4> QED BY <4>1, <4>2, AuditRowIs
    <3>5. EntriesIn(w.auditLog, "APPLICATION", app) = {<<told(row), Null>> : row \in ToSet(timeline)}
      BY <3>3, <3>4 DEF EntriesIn
    <3> QED BY <1>6, <3>1, <3>5
  <2>2. ASSUME NEW i \in w.interview
        PROVE  EntriesIn(w.auditLog, "INTERVIEW", i.id)
               = {<<"INTERVIEW_CREATED", Null>>} \cup {<<"INTERVIEWER_ASSIGNED", u>> : u \in i.panel}
    <3>1. PICK n \in rounds : i = RoundRow(n)
      BY <1>10, <2>2
    <3>2. i.id = round + n /\ i.panel = panel(n)
      BY <1>13, <3>1
    <3>3. ASSUME NEW e \in w.auditLog, e.entityType = "INTERVIEW", e.entityId = i.id
          PROVE  <<e.action, e.about>> = <<"INTERVIEW_CREATED", Null>>
                 \/ \E u \in i.panel : <<e.action, e.about>> = <<"INTERVIEWER_ASSIGNED", u>>
      <4>1. \/ \E n1 \in rounds : e = AuditRow("INTERVIEW", round + n1, "INTERVIEW_CREATED", Null, "script")
            \/ \E n1 \in rounds : \E u \in panel(n1) :
               e = AuditRow("INTERVIEW", round + n1, "INTERVIEWER_ASSIGNED", u, "script")
        BY <1>12, <3>3, AuditRowIs
      <4>2. CASE \E n1 \in rounds : e = AuditRow("INTERVIEW", round + n1, "INTERVIEW_CREATED", Null, "script")
        BY <4>2, AuditRowIs
      <4>3. CASE \E n1 \in rounds : \E u \in panel(n1) :
                 e = AuditRow("INTERVIEW", round + n1, "INTERVIEWER_ASSIGNED", u, "script")
        <5>1. PICK n1 \in rounds : \E u \in panel(n1) :
              e = AuditRow("INTERVIEW", round + n1, "INTERVIEWER_ASSIGNED", u, "script")
          BY <4>3
        <5>2. PICK u \in panel(n1) : e = AuditRow("INTERVIEW", round + n1, "INTERVIEWER_ASSIGNED", u, "script")
          BY <5>1
        <5>3. e.entityId = round + n1 /\ e.action = "INTERVIEWER_ASSIGNED" /\ e.about = u
          BY <5>2, AuditRowIs
        <5>4. n1 = n
          BY <1>16, <3>2, <3>3, <5>3
        <5> QED BY <3>2, <5>3, <5>4
      <4> QED BY <4>1, <4>2, <4>3
    <3>4. \E e \in w.auditLog : e.entityType = "INTERVIEW" /\ e.entityId = i.id
          /\ <<"INTERVIEW_CREATED", Null>> = <<e.action, e.about>>
      <4>1. PICK e : e = AuditRow("INTERVIEW", round + n, "INTERVIEW_CREATED", Null, "script")
        OBVIOUS
      <4>2. e \in w.auditLog
        BY <1>12, <4>1
      <4> QED BY <3>2, <4>1, <4>2, AuditRowIs
    <3>5. ASSUME NEW u \in i.panel
          PROVE  \E e \in w.auditLog : e.entityType = "INTERVIEW" /\ e.entityId = i.id
                 /\ <<"INTERVIEWER_ASSIGNED", u>> = <<e.action, e.about>>
      <4>1. PICK e : e = AuditRow("INTERVIEW", round + n, "INTERVIEWER_ASSIGNED", u, "script")
        OBVIOUS
      <4>2. e \in w.auditLog
        BY <1>12, <3>2, <4>1
      <4> QED BY <3>2, <4>1, <4>2, AuditRowIs
    <3> QED BY <3>3, <3>4, <3>5 DEF EntriesIn
  <2>3. ASSUME NEW f \in w.feedback PROVE EntriesIn(w.auditLog, "FEEDBACK", f.id) # {}
    <3>1. PICK n \in rounds, m \in 1 .. 5 : SeedAccounts[m] \in authors(n) /\ f = Seat(n, m)
      BY <1>11, <2>3
    <3>2. PICK e : e = AuditRow("FEEDBACK", seatId(n, m), "FEEDBACK_SUBMITTED", Null, "script")
      OBVIOUS
    <3>3. e \in w.auditLog
      BY <1>12, <3>1, <3>2
    <3>4. e.entityType = "FEEDBACK" /\ e.entityId = f.id
      BY <1>13, <3>1, <3>2, AuditRowIs
    <3> QED BY <3>3, <3>4 DEF EntriesIn
  <2> QED BY <2>1, <2>2, <2>3 DEF TracedIn
<1>26. {<<i.panel, {f.author : f \in {x \in w.feedback : x.round = i.id}}>> : i \in w.interview}
       = {<<panel(n), authors(n)>> : n \in rounds}
  <2>1. ASSUME NEW n \in rounds PROVE {f.author : f \in {x \in w.feedback : x.round = round + n}} = authors(n)
    <3>1. ASSUME NEW f \in w.feedback, f.round = round + n PROVE f.author \in authors(n)
      <4>1. PICK n1 \in rounds, m \in 1 .. 5 : SeedAccounts[m] \in authors(n1) /\ f = Seat(n1, m)
        BY <1>11, <3>1
      <4>2. n1 = n
        BY <1>13, <1>16, <3>1, <4>1
      <4> QED BY <1>13, <4>1, <4>2
    <3>2. ASSUME NEW u \in authors(n) PROVE \E f \in w.feedback : f.round = round + n /\ f.author = u
      <4>1. PICK m \in 1 .. 5 : u = SeedAccounts[m]
        BY <1>1, AccountsAre
      <4> QED BY <1>11, <1>13, <4>1
    <3> QED BY <3>1, <3>2
  <2>2. ASSUME NEW i \in w.interview
        PROVE  \E n \in rounds : <<i.panel, {f.author : f \in {x \in w.feedback : x.round = i.id}}>>
               = <<panel(n), authors(n)>>
    <3>1. PICK n \in rounds : i = RoundRow(n)
      BY <1>10, <2>2
    <3> QED BY <1>13, <2>1, <3>1
  <2>3. ASSUME NEW n \in rounds
        PROVE  \E i \in w.interview : <<panel(n), authors(n)>>
               = <<i.panel, {f.author : f \in {x \in w.feedback : x.round = i.id}}>>
    <3>1. RoundRow(n) \in w.interview
      BY <1>10
    <3> QED BY <1>13, <2>1, <3>1
  <2> DEFINE Pair(i) == <<i.panel, {f.author : f \in {x \in w.feedback : x.round = i.id}}>>
             Planned(n) == <<panel(n), authors(n)>>
  <2>4. (\A i \in w.interview : \E n \in rounds : Pair(i) = Planned(n))
        /\ \A n \in rounds : \E i \in w.interview : Planned(n) = Pair(i)
    BY <2>2, <2>3
  <2>5. {Pair(i) : i \in w.interview} = {Planned(n) : n \in rounds}
    <3> HIDE DEF Pair, Planned
    <3> QED BY <2>4
  <2> QED BY <2>5
<1>27. \A i \in w.interview : i.app = app /\ \E n \in rounds : i.id = round + n
  BY <1>10, <1>13
<1>28. \A f \in w.feedback : f.id \in assessment + 1 .. assessment + 10 /\ \E n \in rounds : f.round = round + n
  <2> SUFFICES ASSUME NEW f \in w.feedback
               PROVE  f.id \in assessment + 1 .. assessment + 10 /\ \E n \in rounds : f.round = round + n
    OBVIOUS
  <2>1. PICK n \in rounds, m \in 1 .. 5 : f = Seat(n, m)
    BY <1>11
  <2>2. f.id = seatId(n, m) /\ f.round = round + n
    BY <1>13, <2>1
  <2>3. f.id \in assessment + 1 .. assessment + 10
    BY <1>14, <2>2, Zenon
  <2> QED BY <2>2, <2>3
<1>29. \E x : /\ w.application = {x} /\ x.id = app /\ x.candidate = c /\ x.role = roleId
              /\ x.stage = planned(c, title).stage /\ x.status = planned(c, title).status
              /\ x.history = plannedHistory(c, title) /\ TracedIn(w, x)
  BY <1>0, <1>6, <1>9, <1>25
<1> QED BY <1>23, <1>24, <1>26, <1>27, <1>28, <1>29 DEF rounds, panel, authors, AsWritten

-----------------------------------------------------------------------------
(***************************************************************************)
(* A transaction of the script.                                            *)
(***************************************************************************)
tables == [application |-> application, interview |-> interview, feedback |-> feedback, auditLog |-> auditLog]

LEMMA TablesAreSound ==
  ASSUME Types, Keys, References, Histories
  PROVE  Sound(tables)
BY DEF Types, Keys, References, Histories, Sound, tables

LEMMA TracedIs ==
  ASSUME NEW a
  PROVE  (traced(a) <=> TracedIn(tables, a)) /\ (traced(a)' <=> TracedIn(tables', a))
<1>1. traced(a) <=> TracedIn(tables, a)
  BY DEF traced, roundTraced, entriesOf, roundsOf, feedbackOf, TracedIn, EntriesIn, tables
<1>2. traced(a)' <=> TracedIn(tables', a)
  BY DEF traced, roundTraced, entriesOf, roundsOf, feedbackOf, TracedIn, EntriesIn, tables
<1> QED BY <1>1, <1>2

LEMMA ExistsIs ==
  ASSUME NEW e, Entry(e)
  PROVE  (exists(e) <=> ExistsIn(tables, e)) /\ (exists(e)' <=> ExistsIn(tables', e))
BY DEF Entry, exists, ExistsIn, tables, ids

LEMMA UsedIs ==
  /\ usedApplications(tables) = ids(application) \cup named("APPLICATION")
  /\ usedInterviews(tables) = ids(interview) \cup named("INTERVIEW")
  /\ usedFeedback(tables) = ids(feedback) \cup named("FEEDBACK")
BY DEF usedApplications, usedInterviews, usedFeedback, namedIn, named, tables

LEMMA LastIds ==
  ASSUME Bounds
  PROVE  /\ lastApplication \in Nat /\ lastInterview \in Nat /\ lastFeedback \in Nat /\ lastRole \in Nat
         /\ \A id \in ids(application) \cup named("APPLICATION") \cup doomed.applications : id \in Nat
            /\ id =< lastApplication
         /\ \A id \in ids(interview) \cup named("INTERVIEW") \cup doomed.interviews : id \in Nat /\ id =< lastInterview
         /\ \A id \in ids(feedback) \cup named("FEEDBACK") \cup doomed.feedback : id \in Nat /\ id =< lastFeedback
BY LastIdIsLast DEF Bounds, Bounded, lastApplication, lastInterview, lastFeedback, lastRole

\* The ids they use.
Uses(w, c, title, app, round, assessment) ==
  /\ usedApplications(w) = {app}
  /\ usedInterviews(w) \subseteq {round + n : n \in plannedRounds(c, title)}
  /\ \A id \in usedInterviews(w) : id \in Nat /\ round < id /\ id =< round + 2
  /\ usedFeedback(w) = ids(w.feedback)
  /\ \A id \in usedFeedback(w) : id \in Nat /\ assessment < id /\ id =< assessment + 10

LEMMA WrittenUses ==
  ASSUME NEW c \in Seeded, NEW title, NEW roleId, NEW app \in Nat, NEW round \in Nat, NEW assessment \in Nat,
         NEW w, AsWritten(w, c, title, roleId, app, round, assessment)
  PROVE  Uses(w, c, title, app, round, assessment)
<1>3. /\ \E a : w.application = {a} /\ a.id = app
      /\ \A i \in w.interview : \E n \in plannedRounds(c, title) : i.id = round + n
      /\ \A f \in w.feedback : f.id \in assessment + 1 .. assessment + 10
      /\ \A e \in w.auditLog : ExistsIn(w, e)
  BY DEF AsWritten
<1>4. usedApplications(w) = {app}
  <2>1. ids(w.application) = {app}
    BY <1>3 DEF ids
  <2> QED BY <1>3, <2>1 DEF usedApplications, namedIn, ExistsIn
<1>5. usedInterviews(w) = ids(w.interview) /\ usedFeedback(w) = ids(w.feedback)
  BY <1>3 DEF usedInterviews, usedFeedback, namedIn, ExistsIn
<1>6. ids(w.interview) \subseteq {round + n : n \in plannedRounds(c, title)}
  BY <1>3 DEF ids
<1>7. \A n \in plannedRounds(c, title) : round + n \in Nat /\ round < round + n /\ round + n =< round + 2
  BY RoundsAre
<1>8. \A id \in ids(w.feedback) : id \in Nat /\ assessment < id /\ id =< assessment + 10
  BY <1>3 DEF ids
<1>9. \A id \in ids(w.interview) : id \in Nat /\ round < id /\ id =< round + 2
  BY <1>6, <1>7
<1> QED BY <1>4, <1>5, <1>6, <1>8, <1>9 DEF Uses

\* What the script commits next to the rows there are.
LEMMA WrittenIsApart ==
  ASSUME Types, Keys, References, Histories, Bounds, NEW c \in Seeded, NEW k \in 1 .. Len(plans(c)), NEW title,
           title = plans(c)[k].title,
         NEW w, w = Written(c, title, found, lastApplication + 1, lastInterview, lastFeedback), NEW old, old = tables
  PROVE  Sound(w) /\ Sound(old) /\ Apart(old, w) /\ Apart(w, old)
<1>1. PICK app, round, assessment, roleId :
        /\ app = lastApplication + 1 /\ round = lastInterview /\ assessment = lastFeedback /\ roleId = found
        /\ app \in Nat /\ round \in Nat /\ assessment \in Nat /\ roleId \in Nat
  BY LastIds DEF Types
<1>2. w = Written(c, title, roleId, app, round, assessment)
  BY <1>1
<1>3. AsWritten(w, c, title, roleId, app, round, assessment)
  BY <1>1, <1>2, WrittenIs
<1>4. /\ usedApplications(w) = {app}
      /\ \A id \in usedInterviews(w) : id \in Nat /\ id > round
      /\ \A id \in usedFeedback(w) : id \in Nat /\ id > assessment
  <2>1. app \in Nat /\ round \in Nat /\ assessment \in Nat
    BY <1>1
  <2>2. Uses(w, c, title, app, round, assessment)
    BY <2>1, <1>3, WrittenUses
  <2> QED BY <2>1, <2>2 DEF Uses
<1>7. /\ \A id \in usedApplications(old) : id \in Nat /\ id < app
      /\ \A id \in usedInterviews(old) : id \in Nat /\ id =< round
      /\ \A id \in usedFeedback(old) : id \in Nat /\ id =< assessment
  <2>1. /\ \A id \in usedApplications(old) : id \in Nat /\ id =< lastApplication
        /\ \A id \in usedInterviews(old) : id \in Nat /\ id =< lastInterview
        /\ \A id \in usedFeedback(old) : id \in Nat /\ id =< lastFeedback
    BY LastIds, UsedIs
  <2>2. \A id \in Nat : id =< lastApplication => id < app
    BY <1>1, LastIds
  <2> QED BY <1>1, <2>1, <2>2
<1>8. /\ \A id \in usedApplications(old) : id \notin usedApplications(w)
      /\ \A id \in usedInterviews(old) : id \notin usedInterviews(w)
      /\ \A id \in usedFeedback(old) : id \notin usedFeedback(w)
  <2>1. \A id \in usedApplications(old) : id \notin usedApplications(w)
    BY <1>1, <1>4, <1>7
  <2>2. \A id \in usedInterviews(old) : id \notin usedInterviews(w)
    BY <1>1, <1>4, <1>7
  <2>3. \A id \in usedFeedback(old) : id \notin usedFeedback(w)
    BY <1>1, <1>4, <1>7
  <2> QED BY <2>1, <2>2, <2>3
<1> QED BY <1>3, <1>8, TablesAreSound DEF Apart, AsWritten

LEMMA Disjoint ==
  ASSUME NEW old, NEW w, Apart(old, w), Apart(w, old), Sound(old), Sound(w), NEW all, all = Together({old, w})
  PROVE  /\ all.application = old.application \cup w.application /\ all.interview = old.interview \cup w.interview
         /\ all.feedback = old.feedback \cup w.feedback /\ all.auditLog = old.auditLog \cup w.auditLog
         /\ Sound(all)
         /\ \A a \in old.application : TracedIn(old, a) => TracedIn(all, a)
         /\ \A a \in w.application : TracedIn(w, a) => TracedIn(all, a)
<1>1. PICK S : S = {old, w}
  OBVIOUS
<1>2. (\A t \in S : Sound(t)) /\ \A t, u \in S : t = u \/ Apart(t, u)
  BY <1>1
<1>3. all = Together(S) /\ old \in S /\ w \in S
  BY <1>1
<1>4. Sound(all)
  BY <1>2, <1>3, TogetherIsSound
<1>5. (\A a \in old.application : TracedIn(old, a) => TracedIn(all, a)) /\ \A a \in w.application : TracedIn(w, a) =>
      TracedIn(all, a)
  BY <1>2, <1>3, TogetherIsTraced
<1>6. /\ all.application = old.application \cup w.application /\ all.interview = old.interview \cup w.interview
      /\ all.feedback = old.feedback \cup w.feedback /\ all.auditLog = old.auditLog \cup w.auditLog
  BY DEF Together
<1> QED BY <1>4, <1>5, <1>6

\* Where the script is after a transaction.
Away(n) ==
  /\ n \in Nat /\ n \in 1 .. 33 /\ n + 1 \in 1 .. 34 /\ 19 < n
  /\ \A d \in Seeded : n \notin start(d) + 2 .. start(d) + 5 /\ n + 1 \notin start(d) + 2 .. start(d) + 5
                       /\ (n =< start(d) + 5 => n + 1 =< start(d) + 5) /\ start(d) \in Nat
  /\ \A d \in Seeded : \A m \in 1 .. Len(plans(d)) : n + 1 # transactionAt(d, m)

LEMMA AfterTransaction ==
  ASSUME NEW c \in Seeded, NEW k \in 1 .. Len(plans(c)), NEW n, n = transactionAt(c, k)
  PROVE  Away(n)
<1>1. \/ c = "candidate" /\ k \in 1 .. 3 /\ n = 19 + 2 * k
      \/ c = "candidate2" /\ k = 1 /\ n = 33
  BY TransactionsAre
<1>2. n \in {21, 23, 25} \/ n = 33
  BY <1>1
<1>3. \A d \in Seeded : start(d) \in {14, 26}
  BY StartsAre
<1>4. /\ n \in Nat /\ n \in 1 .. 33 /\ n + 1 \in 1 .. 34 /\ 19 < n
  BY <1>2
<1>6. \A s \in {14, 26} : n \notin s + 2 .. s + 5 /\ n + 1 \notin s + 2 .. s + 5 /\ (n =< s + 5 => n + 1 =< s + 5)
      /\ s \in Nat
  <2> SUFFICES ASSUME NEW s \in {14, 26} PROVE n \notin s + 2 .. s + 5 /\ n + 1 \notin s + 2 .. s + 5
      /\ (n =< s + 5 => n + 1 =< s + 5) /\ s \in Nat
    OBVIOUS
  <2>1. CASE s = 14
    BY <1>2, <2>1
  <2>2. CASE s = 26
    <3>1. CASE n = 33
      BY <2>2, <3>1
    <3>2. CASE n \in {21, 23, 25}
      BY <2>2, <3>2
    <3> QED BY <1>2, <3>1, <3>2
  <2> QED BY <2>1, <2>2
<1>5. ASSUME NEW d \in Seeded, NEW m \in 1 .. Len(plans(d)) PROVE n + 1 # transactionAt(d, m)
  <2>1. \/ d = "candidate" /\ m \in 1 .. 3 /\ transactionAt(d, m) = 19 + 2 * m
        \/ d = "candidate2" /\ m = 1 /\ transactionAt(d, m) = 33
    BY <1>5, TransactionsAre
  <2>2. (\A j \in 1 .. 3 : n + 1 # 19 + 2 * j) /\ n + 1 # 33
    BY <1>2
  <2> QED BY <2>1, <2>2, Zenon
<1>7. \A d \in Seeded : n \notin start(d) + 2 .. start(d) + 5 /\ n + 1 \notin start(d) + 2 .. start(d) + 5
                         /\ (n =< start(d) + 5 => n + 1 =< start(d) + 5) /\ start(d) \in Nat
  BY <1>3, <1>6
<1> QED BY <1>4, <1>5, <1>7 DEF Away

\* A planned title is planned once.
LEMMA TitlesDiffer ==
  ASSUME NEW c \in Seeded, NEW k \in 1 .. Len(plans(c))
  PROVE  \A n \in 1 .. Len(plans(c)) : plans(c)[n].title = plans(c)[k].title => n = k
<1> SUFFICES ASSUME NEW n \in 1 .. Len(plans(c)), plans(c)[n].title = plans(c)[k].title PROVE n = k
  OBVIOUS
<1>1. \/ c = "candidate" /\ k = 1 /\ plans(c)[k].title = "Backend"
      \/ c = "candidate" /\ k = 2 /\ plans(c)[k].title = "Designer"
      \/ c = "candidate" /\ k = 3 /\ plans(c)[k].title = "Manager"
      \/ c = "candidate2" /\ k = 1 /\ plans(c)[k].title = "Manager"
  BY PlanTitles
<1>2. \/ c = "candidate" /\ n = 1 /\ plans(c)[n].title = "Backend"
      \/ c = "candidate" /\ n = 2 /\ plans(c)[n].title = "Designer"
      \/ c = "candidate" /\ n = 3 /\ plans(c)[n].title = "Manager"
      \/ c = "candidate2" /\ n = 1 /\ plans(c)[n].title = "Manager"
  BY PlanTitles
<1> QED BY <1>1, <1>2

\* The role found keeps its title.
LEMMA TitleOfFound ==
  ASSUME Keyed(role), NEW r \in role, NEW a, a.role = r.id
  PROVE  titleOf(a) = r.title
<1>1. \A x \in role : x.id = a.role => x = r
  BY DEF Keyed
<1>2. (CHOOSE x \in role : x.id = a.role) = r
  BY <1>1
<1> QED BY <1>2 DEF titleOf

\* Before a transaction of a run nobody has disturbed.
LEMMA RestoredBefore ==
  ASSUME SoFar, NEW c \in Seeded, NEW k \in 1 .. Len(plans(c)), at = transactionAt(c, k)
  PROVE  Restored(c, k - 1)
<1>1. k \in 1 .. 3 /\ Len(plans(c)) \in Nat /\ start(c) \in Nat
  BY PlansAreFew, StartsAre
<1>2. k - 1 \in 0 .. 3 /\ k - 1 =< Len(plans(c)) /\ k =< Len(plans(c)) /\ k - 1 + 1 = k
  BY <1>1
<1>3. transactionAt(c, k - 1) < at /\ at =< transactionAt(c, k - 1 + 1)
  BY <1>1, <1>2 DEF transactionAt
<1>4. PICK n : n = k - 1
  OBVIOUS
<1>5. n \in 0 .. 3 /\ n =< Len(plans(c)) /\ transactionAt(c, n) < at /\ at =< transactionAt(c, n + 1)
  BY <1>2, <1>3, <1>4
<1>6. Restored(c, n)
  BY <1>5 DEF SoFar
<1> QED BY <1>4, <1>6

\* Which candidate's applications a transaction completes.
Passed(c, n, m) ==
  n =< Len(plans(c)) /\ transactionAt(c, n) < m /\ (n < Len(plans(c)) => m =< transactionAt(c, n + 1))

LEMMA JustNow ==
  ASSUME NEW c \in Seeded, NEW k \in 1 .. Len(plans(c)), NEW m \in Nat, m = transactionAt(c, k),
         NEW n \in 0 .. 3, Passed(c, n, m + 1)
  PROVE  n = k
<1>1. \A s, z \in Nat, i \in 1 .. 3, j \in 0 .. 3 :
        /\ j =< z /\ i =< z /\ s + 5 + 2 * j < s + 5 + 2 * i + 1
        /\ j < z => s + 5 + 2 * i + 1 =< s + 5 + 2 * (j + 1)
        => j = i
  OBVIOUS
<1>2. k \in 1 .. 3 /\ start(c) \in Nat /\ Len(plans(c)) \in Nat
  BY PlansAreFew, StartsAre
<1>3. PICK s \in Nat, z \in Nat : s = start(c) /\ z = Len(plans(c))
  BY <1>2
<1>4. k =< z
  BY <1>2, <1>3
<1>5. /\ n =< z /\ s + 5 + 2 * n < s + 5 + 2 * k + 1
      /\ n < z => s + 5 + 2 * k + 1 =< s + 5 + 2 * (n + 1)
  BY <1>3, Zenon DEF transactionAt, Passed
<1> QED BY <1>1, <1>2, <1>4, <1>5, Zenon

\* The other's are where they were.
LEMMA NotYet ==
  ASSUME NEW c \in Seeded, NEW k \in 1 .. Len(plans(c)), NEW m \in Nat, m = transactionAt(c, k),
         NEW s \in Seeded, s # c, NEW n \in 0 .. 3, Passed(s, n, m + 1)
  PROVE  Passed(s, n, m)
<1>0. /\ n =< Len(plans(s)) /\ transactionAt(s, n) < m + 1
      /\ n < Len(plans(s)) => m + 1 =< transactionAt(s, n + 1)
  BY Zenon DEF Passed
<1>1. \/ c = "candidate" /\ k \in 1 .. 3 /\ m = 19 + 2 * k
      \/ c = "candidate2" /\ k = 1 /\ m = 33
  BY TransactionsAre
<1>2. \/ s = "candidate" /\ transactionAt(s, n) = 19 + 2 * n
      \/ s = "candidate2" /\ transactionAt(s, n) = 31 + 2 * n /\ n =< 1
  BY <1>0, ResetsAre
<1>3. c # s
  OBVIOUS
<1>4. transactionAt(s, n) < m
  <2>1. CASE c = "candidate" /\ k \in 1 .. 3 /\ m = 19 + 2 * k
    <3>1. transactionAt(s, n) = 31 + 2 * n /\ s = "candidate2"
      BY <1>2, <1>3, <2>1
    <3>2. 31 + 2 * n < 19 + 2 * k + 1
      BY <1>0, <2>1, <3>1
    <3> QED BY <2>1, <3>2
  <2>2. CASE c = "candidate2" /\ k = 1 /\ m = 33
    <3>1. transactionAt(s, n) = 19 + 2 * n
      BY <1>2, <1>3, <2>2
    <3> QED BY <2>2, <3>1
  <2> QED BY <1>1, <2>1, <2>2
<1>5. ASSUME n < Len(plans(s)) PROVE m =< transactionAt(s, n + 1)
  <2>1. PICK z : z = transactionAt(s, n + 1)
    OBVIOUS
  <2>2. z \in Nat
    <3>1. start(s) \in Nat
      BY StartsAre
    <3>2. PICK b \in Nat : b = start(s)
      BY <3>1
    <3>3. b + 5 + 2 * (n + 1) \in Nat
      OBVIOUS
    <3> QED BY <2>1, <3>2, <3>3, Zenon DEF transactionAt
  <2>3. m + 1 =< z
    BY <1>0, <1>5, <2>1
  <2> QED BY <2>1, <2>2, <2>3
<1> QED BY <1>0, <1>4, <1>5, Zenon DEF Passed

\* An application inserted with its trace keeps the invariant.
LEMMA Inserted ==
  ASSUME IInv, NEW c \in Seeded, NEW k \in 1 .. Len(plans(c)), NEW title, title = plans(c)[k].title,
         run = "running", at = transactionAt(c, k), mayInsert(c, found), CreateApplication(c, title),
         found' = 0, at' = at + 1, UNCHANGED <<account, profile, role, doomed>>, UNCHANGED <<run, disturbed>>,
         Away(at)
  PROVE  IInv'
<1>1. PICK w, old, app, round, assessment, roleId :
        /\ w = Written(c, title, found, lastApplication + 1, lastInterview, lastFeedback) /\ old = tables
        /\ app = lastApplication + 1 /\ round = lastInterview /\ assessment = lastFeedback /\ roleId = found
  OBVIOUS
<1>2. app \in Nat /\ round \in Nat /\ assessment \in Nat /\ roleId \in Nat
  BY <1>1, LastIds DEF IInv, Types
<1>3. AsWritten(w, c, title, roleId, app, round, assessment)
  <2>1. w = Written(c, title, roleId, app, round, assessment)
    BY <1>1
  <2> QED BY <1>2, <2>1, WrittenIs
<1>4. Uses(w, c, title, app, round, assessment)
  BY <1>2, <1>3, WrittenUses
<1>5. Sound(w) /\ Sound(old) /\ Apart(old, w) /\ Apart(w, old)
  BY <1>1, WrittenIsApart DEF IInv
<1>6. PICK all : all = Together({old, w})
  OBVIOUS
<1>7. /\ all.application = old.application \cup w.application /\ all.interview = old.interview \cup w.interview
      /\ all.feedback = old.feedback \cup w.feedback /\ all.auditLog = old.auditLog \cup w.auditLog
      /\ Sound(all)
      /\ \A x \in old.application : TracedIn(old, x) => TracedIn(all, x)
      /\ \A x \in w.application : TracedIn(w, x) => TracedIn(all, x)
  BY <1>5, <1>6, Disjoint
<1>8. old.application = application /\ old.interview = interview /\ old.feedback = feedback /\ old.auditLog = auditLog
  BY <1>1 DEF tables
<1>9. /\ application' = all.application /\ interview' = all.interview /\ feedback' = all.feedback
         /\ auditLog' = all.auditLog
  BY <1>1, <1>7, <1>8 DEF CreateApplication
<1>10. all = tables'
  BY <1>6, <1>9 DEF tables, Together
<1>11. PICK a : /\ w.application = {a} /\ a.id = app /\ a.candidate = c /\ a.role = roleId
                /\ a.stage = planned(c, title).stage /\ a.status = planned(c, title).status
                /\ a.history = plannedHistory(c, title) /\ TracedIn(w, a)
  BY <1>3 DEF AsWritten
<1>12. application' = application \cup {a} /\ interview' = interview \cup w.interview
       /\ feedback' = feedback \cup w.feedback /\ auditLog' = auditLog \cup w.auditLog
  BY <1>7, <1>8, <1>9, <1>11
<1>13. at' \in Nat /\ at' \in 1 .. 34
  BY DEF Away
<1>14. Types' /\ Keys' /\ Histories'
  <2>1. Types'
    BY <1>7, <1>9, <1>13 DEF IInv, Types, Sound
  <2>2. Keys' /\ Histories'
    BY <1>7, <1>9 DEF IInv, Keys, Histories, Sound
  <2> QED BY <2>1, <2>2
<1>15. References'
  <2>1. \A x \in application' : x.role \in ids(role')
    BY <1>1, <1>11, <1>12 DEF IInv, References, mayInsert
  <2>2. (\A i \in interview' : i.app \in ids(application')) /\ \A f \in feedback' : f.round \in ids(interview')
    BY <1>7, <1>9 DEF Sound
  <2> QED BY <2>1, <2>2 DEF References
<1>16. Bounds'
  <2>1. PICK A, I, F, W : /\ A = ids(application) \cup named("APPLICATION") \cup doomed.applications
                          /\ I = ids(interview) \cup named("INTERVIEW") \cup doomed.interviews
                          /\ F = ids(feedback) \cup named("FEEDBACK") \cup doomed.feedback
                          /\ W = w
    OBVIOUS
  <2>2. Bounded(A) /\ Bounded(I) /\ Bounded(F) /\ Bounded(ids(role) \cup {found})
    BY <2>1 DEF IInv, Bounds
  <2>3. \A type : named(type)' = named(type) \cup namedIn(w.auditLog, type)
    BY <1>12 DEF named, namedIn
  <2>4. /\ ids(application') = ids(application) \cup ids(w.application)
           /\ ids(interview') = ids(interview) \cup ids(w.interview)
        /\ ids(feedback') = ids(feedback) \cup ids(w.feedback)
    BY <1>7, <1>8, <1>9 DEF ids
  <2>5. /\ (ids(application) \cup named("APPLICATION") \cup doomed.applications)' = A \cup usedApplications(w)
        /\ (ids(interview) \cup named("INTERVIEW") \cup doomed.interviews)' = I \cup usedInterviews(w)
        /\ (ids(feedback) \cup named("FEEDBACK") \cup doomed.feedback)' = F \cup usedFeedback(w)
    BY <2>1, <2>3, <2>4 DEF usedApplications, usedInterviews, usedFeedback
  <2>6. PICK a1, i1, f1 : /\ a1 = usedApplications(w) /\ i1 = usedInterviews(w) /\ f1 = usedFeedback(w)
    OBVIOUS
  <2>7. /\ a1 \subseteq Nat /\ \A id \in a1 : id =< app
        /\ i1 \subseteq Nat /\ \A id \in i1 : id =< round + 2
        /\ f1 \subseteq Nat /\ \A id \in f1 : id =< assessment + 10
    BY <1>2, <1>4, <2>6 DEF Uses
  <2>8. round + 2 \in Nat /\ assessment + 10 \in Nat
    BY <1>2
  <2>9. Bounded(A \cup a1) /\ Bounded(I \cup i1) /\ Bounded(F \cup f1)
    <3>1. Bounded(A \cup a1)
      BY <1>2, <2>2, <2>7, BoundedMore
    <3>2. Bounded(I \cup i1)
      BY <2>2, <2>7, <2>8, BoundedMore
    <3>3. Bounded(F \cup f1)
      BY <2>2, <2>7, <2>8, BoundedMore
    <3> QED BY <3>1, <3>2, <3>3
  <2>10. Bounded((ids(role) \cup {found})')
    <3>1. Bounded(ids(role))
      BY <2>2, BoundedPart
    <3>2. Bounded(ids(role) \cup {0})
      BY <3>1 DEF Bounded
    <3>3. (ids(role) \cup {found})' = ids(role) \cup {0}
      BY DEF ids
    <3> QED BY <3>2, <3>3
  <2> QED BY <2>5, <2>6, <2>9, <2>10 DEF Bounds
<1>17. NoneDangles'
  <2> SUFFICES ASSUME NEW e \in auditLog' PROVE exists(e)' \/ e.by = "beside"
    BY DEF NoneDangles
  <2>1. Entry(e)
    BY <1>7, <1>9 DEF Sound
  <2>2. CASE e \in auditLog
    <3>1. exists(e) => exists(e)'
      BY <1>12, <2>1 DEF exists, Entry, ids
    <3> QED BY <2>2, <3>1 DEF IInv, NoneDangles
  <2>3. CASE e \in w.auditLog
    <3>1. ExistsIn(w, e)
      BY <1>3, <2>3 DEF AsWritten
    <3>2. ExistsIn(all, e)
      BY <1>7, <3>1 DEF ExistsIn, ids
    <3> QED BY <1>10, <2>1, <3>2, ExistsIs
  <2> QED BY <1>12, <2>2, <2>3
<1>18. \A d \in Seeded : ~Collecting(d) /\ ~Collecting(d)' /\ ~Clearing(d)'
  <2> SUFFICES ASSUME NEW d \in Seeded PROVE ~Collecting(d) /\ ~Collecting(d)' /\ ~Clearing(d)'
    OBVIOUS
  <2>1. at \notin start(d) + 2 .. start(d) + 5 /\ at' \notin start(d) + 2 .. start(d) + 5 /\ start(d) \in Nat
    BY DEF Away
  <2>2. PICK s \in Nat : s = start(d)
    BY <2>1
  <2>3. \A m \in Nat : m \notin s + 2 .. s + 5 => m \notin s + 2 .. s + 4
    OBVIOUS
  <2>4. at \in Nat
    BY DEF Away
  <2>5. at \notin start(d) + 2 .. start(d) + 4 /\ at' \notin start(d) + 2 .. start(d) + 4
    BY <1>13, <2>1, <2>2, <2>3, <2>4
  <2>6. start(d)' = start(d)
    BY DEF start
  <2> QED BY <2>1, <2>5, <2>6, Zenon DEF Collecting, Clearing
<1>19. Places' /\ UnseenIsBeside'
  BY <1>13, <1>18 DEF IInv, Places, UnseenIsBeside
<1>20. Traces'
  <2> SUFFICES ASSUME NEW x \in application' PROVE traced(x)' \/ Unsettled(x.candidate)'
    BY DEF Traces
  <2>1. CASE x = a
    <3>1. TracedIn(all, x)
      BY <1>7, <1>11, <2>1
    <3> QED BY <1>10, <3>1, TracedIs
  <2>2. CASE x \in application /\ traced(x)
    <3>1. TracedIn(old, x)
      BY <1>1, <2>2, TracedIs
    <3>2. TracedIn(all, x)
      BY <1>7, <1>8, <2>2, <3>1
    <3> QED BY <1>10, <3>2, TracedIs
  <2>3. CASE x \in application /\ Unsettled(x.candidate)
    BY <2>3 DEF Unsettled, Away
  <2> QED BY <1>12, <2>1, <2>2, <2>3 DEF IInv, Traces
<1>21. Progress'
  <2> SUFFICES ASSUME ~disturbed PROVE SoFar'
    BY DEF Progress
  <2>1. SoFar
    BY DEF IInv, Progress
  <2>2. \A n \in 1 .. 5 : account'[SeedAccounts[n]] = seedRole[SeedAccounts[n]]
    BY <2>1 DEF SoFar, Away
  <2>3. \A n \in 1 .. 3 : SeedRoles[n].title \in {r.title : r \in role'}
    BY <2>1 DEF SoFar, Away
  <2>4. profile'["candidate"] = "seeded"
    BY <2>1 DEF SoFar, Away
  <2>5. \A s \in Seeded : \A n \in 1 .. Len(plans(s)) : at' # transactionAt(s, n)
    BY DEF Away
  <2>6. \A x \in application : /\ x \in application' /\ titleOf(x)' = titleOf(x) /\ (asPlanned(x) => asPlanned(x)')
    <3> SUFFICES ASSUME NEW x \in application PROVE x \in application' /\ titleOf(x)' = titleOf(x)
        /\ (asPlanned(x) => asPlanned(x)')
      OBVIOUS
    <3>1. app \notin ids(application)
      BY <1>4, <1>5, <1>1, UsedIs DEF Apart, Uses
    <3>2. x.id # app /\ \A i \in w.interview : i.app = app
      BY <1>3, <3>1 DEF AsWritten, ids
    <3>3. roundsOf({x.id})' = roundsOf({x.id})
      BY <1>12, <3>2 DEF roundsOf
    <3>4. ASSUME NEW i \in interview PROVE feedbackOf({i.id})' = feedbackOf({i.id})
      <4>1. i.id \in usedInterviews(old)
        BY <1>8, <3>4 DEF usedInterviews, ids
      <4>2. \A f \in w.feedback : f.round \in usedInterviews(w)
        BY <1>5 DEF Sound, usedInterviews
      <4>3. \A f \in w.feedback : f.round # i.id
        BY <1>5, <4>1, <4>2 DEF Apart
      <4> QED BY <1>12, <4>3 DEF feedbackOf
    <3>5. \A i \in roundsOf({x.id}) : feedbackOf({i.id})' = feedbackOf({i.id})
      BY <3>4 DEF roundsOf
    <3>6. titleOf(x)' = titleOf(x)
      BY DEF titleOf
    <3> QED BY <1>12, <3>3, <3>5, <3>6, AsPlannedStays
  <2>7. asPlanned(a)' /\ titleOf(a)' = title
    <3>1. PICK r \in role : r.id = found /\ r.title = title
      BY <2>1 DEF SoFar
    <3>2. titleOf(a) = title
      BY <1>1, <1>11, <3>1, TitleOfFound DEF IInv, Keys
    <3>3. titleOf(a)' = title
      BY <3>2 DEF titleOf
    <3>4. roundsOf({a.id})' = w.interview
      <4>1. app \notin ids(application)
        BY <1>4, <1>5, <1>1, UsedIs DEF Apart, Uses
      <4>2. \A i \in interview : i.app # app
        BY <4>1 DEF IInv, References
      <4>3. \A i \in w.interview : i.app = app
        BY <1>3 DEF AsWritten
      <4> QED BY <1>11, <1>12, <4>2, <4>3 DEF roundsOf
    <3>5. \A i \in w.interview : feedbackOf({i.id})' = {f \in w.feedback : f.round = i.id}
      <4>1. \A i \in w.interview : i.id \in usedInterviews(w)
        BY DEF usedInterviews, ids
      <4>2. \A f \in feedback : f.round \in usedInterviews(old)
        BY <1>1, UsedIs DEF IInv, References
      <4>3. \A i \in w.interview, f \in feedback : f.round # i.id
        BY <1>5, <4>1, <4>2 DEF Apart
      <4> QED BY <1>12, <4>3 DEF feedbackOf
    <3>6. {<<i.panel, {f.author : f \in feedbackOf({i.id})'}>> : i \in w.interview}
            = {<<SeedCandidates[c].interviews[n].panel, SeedCandidates[c].interviews[n].authors>> :
              n \in plannedRounds(c, title)}
      <4>1. {<<i.panel, {f.author : f \in feedbackOf({i.id})'}>> : i \in w.interview}
              = {<<i.panel, {f.author : f \in {x \in w.feedback : x.round = i.id}}>> : i \in w.interview}
        BY <3>5
      <4> QED BY <1>3, <4>1, Zenon DEF AsWritten
    <3> QED BY <1>11, <3>3, <3>4, <3>6 DEF asPlanned
  <2>8. ASSUME NEW s \in Seeded, NEW n \in 0 .. 3, n =< Len(plans(s)), transactionAt(s, n) < at',
               n < Len(plans(s)) => at' =< transactionAt(s, n + 1)
        PROVE  Restored(s, n)'
    <3>a. PICK now \in Nat : now = at
      BY DEF Away
    <3>b. now = transactionAt(c, k) /\ Passed(s, n, now + 1)
      BY <2>8, <3>a, Zenon DEF Passed
    <3>1. CASE s # c
      <4>0. Passed(s, n, now)
        BY <3>b, <3>1, NotYet
      <4>1. transactionAt(s, n) < at /\ (n < Len(plans(s)) => at =< transactionAt(s, n + 1))
        BY <3>a, <4>0, Zenon DEF Passed
      <4>2. Restored(s, n)
        BY <2>1, <2>8, <4>1 DEF SoFar
      <4>3. applicationsOf(s)' = applicationsOf(s)
        BY <1>11, <1>12, <3>1 DEF applicationsOf
      <4>4. \A x \in applicationsOf(s) : x \in application
        BY DEF applicationsOf
      <4>5. \A x \in applicationsOf(s) : asPlanned(x)'
        BY <2>6, <4>2, <4>4 DEF Restored
      <4>6. {titleOf(x)' : x \in applicationsOf(s)} = {titleOf(x) : x \in applicationsOf(s)}
        BY <2>6, <4>4
      <4> QED BY <4>2, <4>3, <4>5, <4>6 DEF Restored
    <3>2. CASE s = c
      <4>1. n = k
        BY <3>b, <3>2, JustNow
      <4>2. Restored(c, k - 1)
        BY <2>1, RestoredBefore
      <4>3. applicationsOf(c)' = applicationsOf(c) \cup {a}
        BY <1>11, <1>12 DEF applicationsOf
      <4>4. a \notin applicationsOf(c)
        <5>1. app \notin ids(application)
          BY <1>4, <1>5, <1>1, UsedIs DEF Apart, Uses
        <5> QED BY <1>11, <5>1 DEF applicationsOf, ids
      <4>5. \A x \in applicationsOf(c) : x \in application
        BY DEF applicationsOf
      <4>6. \A x \in applicationsOf(c)' : asPlanned(x)'
        BY <2>6, <2>7, <4>2, <4>3, <4>5 DEF Restored
      <4>7. {titleOf(x)' : x \in applicationsOf(c)'} = {titleOf(x) : x \in applicationsOf(c)} \cup {title}
        BY <2>6, <2>7, <4>3, <4>5
      <4>8. k \in 1 .. 3
        BY PlansAreFew
      <4>9. {plans(c)[m].title : m \in 1 .. k - 1} \cup {title} = {plans(c)[m].title : m \in 1 .. k}
        <5>1. 1 .. k = (1 .. k - 1) \cup {k}
          BY <4>8
        <5> QED BY <5>1
      <4>10. IsFiniteSet(applicationsOf(c)') /\ Cardinality(applicationsOf(c)') = k
        <5>1. PICK S : S = applicationsOf(c)
          OBVIOUS
        <5>2. IsFiniteSet(S) /\ Cardinality(S) = k - 1 /\ a \notin S
          BY <4>2, <4>4, <5>1 DEF Restored
        <5>3. IsFiniteSet(S \cup {a}) /\ Cardinality(S \cup {a}) = k - 1 + 1
          BY <5>2, FS_AddElement
        <5>4. k - 1 + 1 = k
          BY <4>8
        <5> QED BY <4>3, <5>1, <5>3, <5>4
      <4>11. {titleOf(x)' : x \in applicationsOf(c)'} = {plans(c)[m].title : m \in 1 .. k}
        BY <4>2, <4>7, <4>9 DEF Restored
      <4> QED BY <3>2, <4>1, <4>6, <4>10, <4>11 DEF Restored
    <3> QED BY <3>1, <3>2
  <2> QED BY <2>2, <2>3, <2>4, <2>5, <2>8 DEF SoFar
<1> QED BY <1>14, <1>15, <1>16, <1>17, <1>19, <1>20, <1>21 DEF IInv

\* A transaction: it inserts, or the insert is refused and the run fails.
LEMMA TransactionStep ==
  ASSUME IInv, Transaction
  PROVE  IInv'
<1>1. PICK c, k, title : /\ c \in Seeded /\ k \in 1 .. Len(plans(c)) /\ run = "running" /\ title = plans(c)[k].title
                         /\ at = transactionAt(c, k) /\ statement.of = c /\ statement.title = title
  <2>1. run = "running" /\ at \in 1 .. 33 /\ main[at].do = "transaction" /\ statement = main[at]
    BY Awaited DEF IInv, Transaction
  <2>2. main[at].of \in Seeded /\ \E k \in 1 .. Len(plans(main[at].of)) :
          at = start(main[at].of) + 5 + 2 * k /\ main[at].title = plans(main[at].of)[k].title
    BY <2>1, PlaceOf
  <2> QED BY <2>1, <2>2 DEF transactionAt
<1>2. Away(at)
  <2>1. PICK n : n = at
    OBVIOUS
  <2> QED BY <1>1, <2>1, AfterTransaction
<1>3. CASE ~mayInsert(c, found)
  <2>1. End("failed")
    BY <1>1, <1>3 DEF Transaction
  <2>2. run' = "failed" /\ disturbed' = disturbed
    BY <2>1 DEF End
  <2>3. disturbed
    <3> SUFFICES ASSUME ~disturbed PROVE mayInsert(c, found)
      BY <1>3
    <3>1. SoFar
      BY <1>1 DEF IInv, Progress
    <3>2. PICK r \in role : r.id = found /\ r.title = title
      BY <1>1, <3>1 DEF SoFar
    <3>3. Restored(c, k - 1)
      BY <1>1, <3>1, RestoredBefore
    <3>4. ASSUME NEW a \in applicationsOf(c), a.role = found PROVE FALSE
      <4>1. titleOf(a) = title
        BY <3>2, <3>4, TitleOfFound DEF IInv, Keys
      <4>2. PICK n \in 1 .. k - 1 : plans(c)[n].title = title
        BY <3>3, <4>1 DEF Restored
      <4>3. n \in 1 .. Len(plans(c)) /\ n # k
        <5>1. Len(plans(c)) \in Nat
          BY <1>1, StartsAre
        <5>2. k \in Nat /\ k =< Len(plans(c))
          BY <1>1, <5>1
        <5> QED BY <5>1, <5>2
      <4> QED BY <1>1, <4>2, <4>3, TitlesDiffer
    <3> QED BY <3>2, <3>4 DEF mayInsert, ids
  <2>4. Progress'
    BY <2>2, <2>3 DEF Progress
  <2> QED BY <1>1, <2>1, <2>4, ScriptEnds DEF IInv
<1>4. CASE mayInsert(c, found)
  BY <1>1, <1>2, <1>4, Inserted DEF Transaction, Then, Goto
<1> QED BY <1>3, <1>4

-----------------------------------------------------------------------------
(***************************************************************************)
(* The requests.  They leave the script where it is, keep every row's id   *)
(* and owner, and give a new row an id nothing refers to.                  *)
(***************************************************************************)
Grown ==
  /\ \A y \in application : \E x \in application' : x.id = y.id /\ x.candidate = y.candidate
  /\ \A x \in application' : \/ \E y \in application : x.id = y.id /\ x.candidate = y.candidate
                             \/ x.id \notin ids(application) \cup named("APPLICATION")
  /\ \A y \in interview : \E x \in interview' : x.id = y.id /\ x.app = y.app
  /\ \A x \in interview' : \/ \E y \in interview : x.id = y.id /\ x.app = y.app
                           \/ x.id \notin ids(interview) \cup named("INTERVIEW")
  /\ \A y \in feedback : \E x \in feedback' : x.id = y.id /\ x.round = y.round
  /\ \A x \in feedback' : \/ \E y \in feedback : x.id = y.id /\ x.round = y.round
                          \/ x.id \notin ids(feedback) \cup named("FEEDBACK")
  /\ \A e \in auditLog' : e \in auditLog \/ (e.by = by /\ exists(e)')

\* A request that only adds rows keeps what is said of the script.
LEMMA RequestKeeps ==
  ASSUME IInv, Grown, UNCHANGED <<run, at, found, doomed>>, disturbed' = TRUE
  PROVE  Places' /\ UnseenIsBeside' /\ NoneDangles' /\ Progress'
<1>1. \A c : applicationsIds(c) \subseteq applicationsIds(c)'
  BY DEF Grown, applicationsIds, applicationsOf, ids
<1>2. \A c : roundsIds(c) \subseteq roundsIds(c)'
  BY <1>1 DEF Grown, roundsIds, roundsOf, ids
<1>3. \A c : feedbackIds(c) \subseteq feedbackIds(c)'
  BY <1>2 DEF Grown, feedbackIds, feedbackOf, ids
<1>4. \A c \in Seeded : (Collecting(c)' <=> Collecting(c)) /\ (Clearing(c)' <=> Clearing(c))
  BY DEF Collecting, Clearing
<1>5. Places'
  BY <1>1, <1>2, <1>3, <1>4 DEF IInv, Places
<1>6. UnseenIsBeside'
  <2> SUFFICES ASSUME NEW c \in Seeded, Clearing(c) PROVE Unseen(c)'
    BY <1>4 DEF UnseenIsBeside
  <2>1. Unseen(c) /\ \A e \in auditLog' : e \notin auditLog => e.by = "beside"
    BY DEF IInv, UnseenIsBeside, Clearing, Grown, by
  <2>2. ASSUME NEW j \in interview, j.app \in applicationsIds(c)' PROVE j.app \in applicationsIds(c)
    <3>1. PICK x \in application' : x.id = j.app /\ x.candidate = c
      BY <2>2 DEF applicationsIds, applicationsOf, ids
    <3>2. x.id \in ids(application)
      BY <3>1 DEF IInv, References
    <3>3. PICK y \in application : x.id = y.id /\ x.candidate = y.candidate
      BY <3>2 DEF Grown
    <3> QED BY <3>1, <3>3 DEF applicationsIds, applicationsOf, ids
  <2>3. ASSUME NEW x \in application', x.candidate = c, x.id \notin doomed.applications,
               NEW e \in auditLog, e.entityType = "APPLICATION", e.entityId = x.id
        PROVE  e.by = "beside"
    <3>1. x.id \in named("APPLICATION")
      BY <2>3 DEF named
    <3>2. PICK y \in application : x.id = y.id /\ x.candidate = y.candidate
      BY <3>1 DEF Grown
    <3> QED BY <2>1, <2>3, <3>2 DEF Unseen, Beside
  <2>4. ASSUME NEW i \in interview', i.app \in applicationsIds(c)',
               at = start(c) + 2 => i.app \notin doomed.applications,
               at \in {start(c) + 3, start(c) + 4} => i.id \notin doomed.interviews,
               NEW e \in auditLog, e.entityType = "INTERVIEW", e.entityId = i.id
        PROVE  e.by = "beside"
    <3>1. i.id \in named("INTERVIEW")
      BY <2>4 DEF named
    <3>2. PICK j \in interview : i.id = j.id /\ i.app = j.app
      BY <3>1 DEF Grown
    <3>3. j.app \in applicationsIds(c)
      BY <2>2, <2>4, <3>2
    <3> QED BY <2>1, <2>4, <3>2, <3>3 DEF Unseen, Beside
  <2>5. ASSUME NEW i \in interview', NEW f \in feedback', i.app \in applicationsIds(c)', f.round = i.id,
               at = start(c) + 2 => i.app \notin doomed.applications,
               at = start(c) + 3 => i.id \notin doomed.interviews,
               at = start(c) + 4 => f.id \notin doomed.feedback,
               NEW e \in auditLog, e.entityType = "FEEDBACK", e.entityId = f.id
        PROVE  e.by = "beside"
    <3>1. f.id \in named("FEEDBACK")
      BY <2>5 DEF named
    <3>2. PICK g \in feedback : f.id = g.id /\ f.round = g.round
      BY <3>1 DEF Grown
    <3>3. i.id \in ids(interview)
      BY <2>5, <3>2 DEF IInv, References
    <3>4. PICK j \in interview : i.id = j.id /\ i.app = j.app
      BY <3>3 DEF Grown
    <3>5. j.app \in applicationsIds(c)
      BY <2>2, <2>5, <3>4
    <3> QED BY <2>1, <2>5, <3>2, <3>4, <3>5 DEF Unseen, Beside
  <2>6. \A x \in application' : x.candidate = c /\ x.id \notin doomed.applications => Beside("APPLICATION", x.id)'
    BY <2>1, <2>3 DEF Beside
  <2>7. \A i \in interview' :
          /\ i.app \in applicationsIds(c)'
          /\ at = start(c) + 2 => i.app \notin doomed.applications
          /\ at \in {start(c) + 3, start(c) + 4} => i.id \notin doomed.interviews
          => Beside("INTERVIEW", i.id)'
    BY <2>1, <2>4 DEF Beside
  <2>8. \A i \in interview', f \in feedback' :
          /\ i.app \in applicationsIds(c)' /\ f.round = i.id
          /\ at = start(c) + 2 => i.app \notin doomed.applications
          /\ at = start(c) + 3 => i.id \notin doomed.interviews
          /\ at = start(c) + 4 => f.id \notin doomed.feedback
          => Beside("FEEDBACK", f.id)'
    BY <2>1, <2>5 DEF Beside
  <2> QED BY <2>6, <2>7, <2>8 DEF Unseen
<1>7. NoneDangles'
  <2>1. \A e \in auditLog : exists(e) => exists(e)'
    <3>1. ids(application) \subseteq ids(application') /\ ids(interview) \subseteq ids(interview')
          /\ ids(feedback) \subseteq ids(feedback')
      BY DEF Grown, ids
    <3>2. \A e \in auditLog : e.entityType \in {"APPLICATION", "INTERVIEW", "FEEDBACK"}
      BY DEF IInv, Types, Entry
    <3> QED BY <3>1, <3>2 DEF exists, ids
  <2> QED BY <2>1 DEF IInv, NoneDangles, Grown
<1>8. Progress'
  BY DEF Progress
<1> QED BY <1>5, <1>6, <1>7, <1>8

\* Accounts, contact details and roles.
LEMMA RowsAreLeft ==
  ASSUME IInv, UNCHANGED <<run, at, found, doomed>>, UNCHANGED rows, disturbed' = TRUE,
         account' \in [Accounts -> {"RECRUITER", "INTERVIEWER", "CANDIDATE", Null}],
         profile' \in [Seeded -> {Null, "seeded", "patched"}],
         role' \subseteq RoleRows, Keyed(role'), Bounded((ids(role) \cup {found})'),
         \A a \in application : a.role \in ids(role')
  PROVE  IInv'
<1>1. Types' /\ Keys' /\ Histories' /\ References'
  BY DEF IInv, Types, Keys, Histories, References, rows, ids
<1>2. Bounds'
  BY DEF IInv, Bounds, rows, ids, named
<1>3. Grown
  BY DEF Grown, rows
<1>4. Traces'
  BY TraceStays DEF IInv, Traces, Unsettled, rows
<1>5. Places' /\ UnseenIsBeside' /\ NoneDangles' /\ Progress'
  BY <1>3, RequestKeeps
<1> QED BY <1>1, <1>2, <1>4, <1>5 DEF IInv

LEMMA RoleRequests ==
  ASSUME IInv, Request,
         \/ \E u \in DOMAIN account : signup(u)
         \/ \E c \in Seeded : updateCandidateContact(c)
         \/ \E title \in HandTitles : createRole(title)
         \/ \E r \in role, status \in {"OPEN", "CLOSED"} : updateRole(r, status)
         \/ \E r \in role : deleteRole(r)
  PROVE  IInv'
<1>1. UNCHANGED <<run, at, found, doomed>> /\ disturbed' = TRUE
  BY DEF Request, script
<1>2. /\ \A a \in application : a.role \in ids(role)
      /\ Keyed(role) /\ role \subseteq RoleRows /\ Bounded(ids(role) \cup {found})
      /\ account \in [Accounts -> {"RECRUITER", "INTERVIEWER", "CANDIDATE", Null}]
      /\ profile \in [Seeded -> {Null, "seeded", "patched"}]
  BY DEF IInv, References, Keys, Types, Bounds
<1>3. CASE \E u \in DOMAIN account : signup(u)
  <2>1. PICK u \in Accounts : account' = [account EXCEPT ![u] = "CANDIDATE"] /\ UNCHANGED <<profile, role>>
        /\ UNCHANGED rows
    BY <1>2, <1>3 DEF signup, rows
  <2>2. account' \in [Accounts -> {"RECRUITER", "INTERVIEWER", "CANDIDATE", Null}]
    BY <1>2, <2>1
  <2>3. (ids(role) \cup {found})' = ids(role) \cup {found}
    BY <1>1, <2>1 DEF ids
  <2> QED BY <1>1, <1>2, <2>1, <2>2, <2>3, RowsAreLeft
<1>4. CASE \E c \in Seeded : updateCandidateContact(c)
  <2>1. PICK c \in Seeded : profile' = [profile EXCEPT ![c] = "patched"] /\ UNCHANGED <<account, role>> /\ UNCHANGED rows
    BY <1>4 DEF updateCandidateContact, rows
  <2>2. profile' \in [Seeded -> {Null, "seeded", "patched"}]
    BY <1>2, <2>1
  <2>3. (ids(role) \cup {found})' = ids(role) \cup {found}
    BY <1>1, <2>1 DEF ids
  <2> QED BY <1>1, <1>2, <2>1, <2>2, <2>3, RowsAreLeft
<1>5. CASE \E title \in HandTitles : createRole(title)
  <2>1. PICK title \in Titles : /\ role' = role \cup {[id |-> lastRole + 1, title |-> title, status |-> "OPEN"]}
                                /\ UNCHANGED <<account, profile>> /\ UNCHANGED rows
    BY <1>5, SeedOthers DEF createRole, rows
  <2>2. /\ role' \subseteq RoleRows /\ Keyed(role') /\ ids(role) \subseteq ids(role')
        /\ Bounded((ids(role) \cup {found})')
    BY <1>1, <2>1, NewRole
  <2> QED BY <1>1, <1>2, <2>1, <2>2, RowsAreLeft
<1>6. CASE \E r \in role, status \in {"OPEN", "CLOSED"} : updateRole(r, status)
  <2>1. PICK r \in role, status \in {"OPEN", "CLOSED"} :
          /\ role' = (role \ {r}) \cup {[r EXCEPT !.status = status]}
          /\ UNCHANGED <<account, profile>> /\ UNCHANGED rows
    BY <1>6 DEF updateRole, rows
  <2>2. PICK new : new = [r EXCEPT !.status = status]
    OBVIOUS
  <2>3. new \in RoleRows /\ new.id = r.id
    <3>1. r \in RoleRows
      BY <1>2
    <3> QED BY <2>2, <3>1 DEF RoleRows
  <2>4. role' \subseteq RoleRows
    BY <1>2, <2>1, <2>2, <2>3
  <2>5. Keyed(role')
    BY <1>2, <2>1, <2>2, <2>3 DEF Keyed
  <2>6. ids(role') = ids(role)
    BY <2>1, <2>2, <2>3 DEF ids
  <2>7. (ids(role) \cup {found})' = ids(role) \cup {found}
    BY <1>1, <2>6 DEF ids
  <2> QED BY <1>1, <1>2, <2>1, <2>4, <2>5, <2>6, <2>7, RowsAreLeft
<1>7. CASE \E r \in role : deleteRole(r)
  <2>1. PICK r \in role : /\ role' = role \ {r} /\ UNCHANGED <<account, profile>> /\ UNCHANGED rows
                          /\ \A a \in application : a.role # r.id
    BY <1>7 DEF deleteRole, rows
  <2>2. role' \subseteq RoleRows /\ Keyed(role')
    BY <1>2, <2>1 DEF Keyed
  <2>3. \A a \in application : a.role \in ids(role')
    BY <1>2, <2>1 DEF ids
  <2>4. (ids(role) \cup {found})' \subseteq ids(role) \cup {found}
    BY <1>1, <2>1 DEF ids
  <2>5. Bounded((ids(role) \cup {found})')
    BY <1>2, <2>4, BoundedPart
  <2> QED BY <1>1, <1>2, <2>1, <2>2, <2>3, <2>5, RowsAreLeft
<1> QED BY <1>3, <1>4, <1>5, <1>6, <1>7

LEMMA OneMore ==
  ASSUME NEW S, Bounded(S), NEW id \in Nat
  PROVE  Bounded(S \cup {id})
<1>1. {id} \subseteq Nat /\ \A x \in {id} : x =< id
  OBVIOUS
<1> QED BY <1>1, BoundedMore

\* The next ids are nobody's.
LEMMA NextIds ==
  ASSUME Bounds
  PROVE  /\ lastApplication + 1 \in Nat /\ lastInterview + 1 \in Nat /\ lastFeedback + 1 \in Nat
         /\ lastApplication + 1 \notin ids(application) \cup named("APPLICATION")
         /\ lastInterview + 1 \notin ids(interview) \cup named("INTERVIEW")
         /\ lastFeedback + 1 \notin ids(feedback) \cup named("FEEDBACK")
<1>1. \A m, n \in Nat : n =< m => n # m + 1
  OBVIOUS
<1> QED BY <1>1, LastIds

LEMMA OneEntryMore ==
  ASSUME NEW e, auditLog' = auditLog \cup {e}, NEW type, NEW id, e.entityType = type, e.entityId = id
  PROVE  entriesOf(type, id)' = entriesOf(type, id) \cup {<<e.action, e.about>>}
BY DEF entriesOf

LEMMA NoEntries ==
  ASSUME NEW type, NEW id, id \notin named(type)
  PROVE  entriesOf(type, id) = {}
BY DEF entriesOf, named

\* createApplication.
LEMMA Applied ==
  ASSUME IInv, Request, NEW c \in Candidates, NEW r \in role, createApplication(c, r)
  PROVE  IInv'
<1>1. UNCHANGED <<run, at, found, doomed>> /\ disturbed' = TRUE
  BY DEF Request, script
<1>2. PICK app \in Nat : app = lastApplication + 1
  BY NextIds DEF IInv
<1>3. app \notin ids(application) \cup named("APPLICATION")
  BY <1>2, NextIds DEF IInv
<1>4. PICK h : h = <<EntryRow>>
  OBVIOUS
<1>5. h \in Seq(HistoryRows) /\ h # <<>> /\ Last(h) = EntryRow /\ Tail(h) = <<>>
  <2>1. EntryRow \in HistoryRows
    BY DEF EntryRow, HistoryRow, HistoryRows, Stages, Statuses
  <2> QED BY <1>4, <2>1 DEF Last
<1>6. PICK a : a = [id |-> app, candidate |-> c, role |-> r.id, status |-> "ACTIVE", stage |-> "APPLIED", history |-> h]
  OBVIOUS
<1>7. a.id = app /\ a.candidate = c /\ a.role = r.id /\ a.status = "ACTIVE" /\ a.stage = "APPLIED" /\ a.history = h
  BY <1>6
<1>8. application' = application \cup {a} /\ UNCHANGED <<account, profile, role, interview, feedback, auditLog>>
  BY <1>2, <1>4, <1>6 DEF createApplication
<1>9. a \in ApplicationRows
  <2>1. r.id \in Nat
    BY DEF IInv, Types, RoleRows
  <2> QED BY <1>5, <1>6, <2>1 DEF ApplicationRows, Statuses, Stages
<1>10. Told(a)
  BY <1>5, <1>7 DEF Told, EntryRow, HistoryRow
<1>11. Types' /\ Histories'
  <2>1. Types'
    BY <1>1, <1>8, <1>9 DEF IInv, Types
  <2> QED BY <1>8, <1>10, <2>1 DEF IInv, Histories
<1>12. Keys'
  BY <1>3, <1>7, <1>8 DEF IInv, Keys, Keyed, ids
<1>13. References'
  BY <1>7, <1>8 DEF IInv, References, ids
<1>14. Bounds'
  <2>1. PICK A : A = ids(application) \cup named("APPLICATION") \cup doomed.applications
    OBVIOUS
  <2>2. Bounded(A \cup {app})
    BY <2>1, OneMore DEF IInv, Bounds
  <2>3. (ids(application) \cup named("APPLICATION") \cup doomed.applications)' = A \cup {app}
    BY <1>1, <1>7, <1>8, <2>1 DEF ids, named
  <2> QED BY <1>1, <1>8, <2>2, <2>3 DEF IInv, Bounds, ids, named
<1>15. Grown
  BY <1>3, <1>7, <1>8 DEF Grown
<1>16. \A type, id : entriesOf(type, id)' = entriesOf(type, id)
  BY <1>8 DEF entriesOf
<1>17. \A id : roundsOf({id})' = roundsOf({id}) /\ feedbackOf({id})' = feedbackOf({id})
  BY <1>8 DEF roundsOf, feedbackOf
<1>18. Traces'
  <2> SUFFICES ASSUME NEW x \in application' PROVE traced(x)' \/ Unsettled(x.candidate)'
    BY DEF Traces
  <2>1. CASE x = a
    <3>1. entriesOf("APPLICATION", app)' = {}
      BY <1>3, <1>16, NoEntries
    <3>2. {<<told(row), Null>> : row \in ToSet(Tail(h))} = {}
      BY <1>5 DEF ToSet
    <3>3. roundsOf({app})' = {}
      BY <1>3, <1>17 DEF roundsOf, IInv, References
    <3> QED BY <1>7, <2>1, <3>1, <3>2, <3>3 DEF traced
  <2>2. CASE x \in application /\ traced(x)
    BY <1>16, <1>17, <2>2, TracedStays
  <2>3. CASE x \in application /\ Unsettled(x.candidate)
    BY <1>1, <2>3 DEF Unsettled
  <2> QED BY <1>8, <2>1, <2>2, <2>3 DEF IInv, Traces
<1> QED BY <1>1, <1>11, <1>12, <1>13, <1>14, <1>15, <1>18, RequestKeeps DEF IInv

\* A history with one row more.
LEMMA Appended ==
  ASSUME NEW h \in Seq(HistoryRows), h # <<>>, NEW row \in HistoryRows, NEW g, g = Append(h, row)
  PROVE  /\ g \in Seq(HistoryRows) /\ g # <<>> /\ Last(g) = row
         /\ ToSet(Tail(g)) = ToSet(Tail(h)) \cup {row}
<1>1. PICK n \in Nat : n = Len(h)
  OBVIOUS
<1>2. n > 0 /\ DOMAIN h = 1 .. n
  BY <1>1
<1>3. /\ g \in Seq(HistoryRows) /\ Len(g) = n + 1 /\ DOMAIN g = 1 .. n + 1
      /\ g[n + 1] = row /\ \A k \in 1 .. n : g[k] = h[k]
  BY <1>1
<1>4. g # <<>> /\ Last(g) = row
  BY <1>2, <1>3 DEF Last
<1>5. PICK t, u : t = Tail(h) /\ u = Tail(g)
  OBVIOUS
<1>6. DOMAIN t = 1 .. n - 1 /\ \A k \in 1 .. n - 1 : t[k] = h[k + 1]
  BY <1>1, <1>2, <1>5
<1>7. DOMAIN u = 1 .. n /\ \A k \in 1 .. n : u[k] = g[k + 1]
  BY <1>2, <1>3, <1>4, <1>5
<1>8. \A k \in 1 .. n - 1 : u[k] = t[k]
  <2> TAKE k \in 1 .. n - 1
  <2>1. k \in 1 .. n /\ k + 1 \in 1 .. n
    BY <1>2
  <2> QED BY <1>3, <1>6, <1>7, <2>1
<1>9. u[n] = row
  BY <1>2, <1>3, <1>7
<1>10. 1 .. n = (1 .. n - 1) \cup {n}
  BY <1>2
<1>11. ToSet(u) = ToSet(t) \cup {row}
  BY <1>6, <1>7, <1>8, <1>9, <1>10 DEF ToSet
<1> QED BY <1>3, <1>4, <1>5, <1>11

\* changeStage.
LEMMA StageChanged ==
  ASSUME IInv, Request, NEW a \in application, changeStage(a)
  PROVE  IInv'
<1>1. UNCHANGED <<run, at, found, doomed>> /\ disturbed' = TRUE
  BY DEF Request, script
<1>2. PICK row : row = HistoryRow(Onward[a.stage], "ACTIVE", FALSE)
  OBVIOUS
<1>3. row \in HistoryRows /\ row.stage = Onward[a.stage] /\ row.status = "ACTIVE"
  BY <1>2 DEF changeStage, Onward, HistoryRow, HistoryRows, Stages, Statuses
<1>4. PICK b, e : /\ b = [a EXCEPT !.stage = row.stage, !.history = Append(@, row)]
                  /\ e = AuditRow("APPLICATION", a.id, told(row), Null, by)
  OBVIOUS
<1>5. /\ e.entityType = "APPLICATION" /\ e.entityId = a.id /\ e.action = told(row) /\ e.about = Null /\ e.by = by
  BY <1>4, AuditRowIs
<1>6. /\ application' = (application \ {a}) \cup {b} /\ auditLog' = auditLog \cup {e}
      /\ UNCHANGED <<account, profile, role, interview, feedback>>
  <2>1. ToSet(<<row>>) = {row}
    BY DEF ToSet
  <2> QED BY <1>2, <1>4, <2>1 DEF changeStage, AuditOfHistory
<1>7. a \in ApplicationRows /\ a.id \in Nat /\ a.candidate \in Candidates /\ a.role \in Nat
      /\ a.history \in Seq(HistoryRows) /\ a.history # <<>>
      /\ a.status = "ACTIVE"
  BY DEF IInv, Types, Histories, Told, ApplicationRows, changeStage
<1>8. PICK g : g = Append(a.history, row)
  OBVIOUS
<1>9. /\ g \in Seq(HistoryRows) /\ g # <<>> /\ Last(g) = row
      /\ ToSet(Tail(g)) = ToSet(Tail(a.history)) \cup {row}
  BY <1>3, <1>7, <1>8, Appended
<1>10. /\ b.id = a.id /\ b.candidate = a.candidate /\ b.role = a.role /\ b.status = "ACTIVE" /\ b.stage = row.stage
          /\ b.history = g
       /\ b \in ApplicationRows
  BY <1>3, <1>4, <1>7, <1>8, <1>9 DEF ApplicationRows, HistoryRows
<1>11. Types' /\ Histories'
  <2>1. by \in {"request", "beside"}
    BY DEF by
  <2>2. Entry(e)
    BY <1>5, <1>7, <2>1 DEF Entry
  <2>3. Types'
    BY <1>1, <1>6, <1>10, <2>2 DEF IInv, Types
  <2>4. Told(b)
    BY <1>3, <1>9, <1>10 DEF Told
  <2> QED BY <1>6, <2>3, <2>4 DEF IInv, Histories
<1>12. Keys'
  BY <1>6, <1>10 DEF IInv, Keys, Keyed
<1>13. ids(application') = ids(application)
  BY <1>6, <1>10 DEF ids
<1>14. References'
  BY <1>6, <1>10, <1>13 DEF IInv, References
<1>15. Bounds'
  <2>1. named("APPLICATION")' = named("APPLICATION") \cup {a.id}
    BY <1>5, <1>6 DEF named
  <2>2. named("INTERVIEW")' = named("INTERVIEW") /\ named("FEEDBACK")' = named("FEEDBACK")
    BY <1>5, <1>6 DEF named
  <2>3. a.id \in ids(application)
    BY DEF ids
  <2>4. (ids(application) \cup named("APPLICATION") \cup doomed.applications)'
          = ids(application) \cup named("APPLICATION") \cup doomed.applications
    BY <1>1, <1>13, <2>1, <2>3
  <2> QED BY <1>1, <1>6, <2>2, <2>4 DEF IInv, Bounds, ids
<1>16. Grown
  <2>1. exists(e)'
    BY <1>5, <1>6, <1>10 DEF exists, ids
  <2> QED BY <1>5, <1>6, <1>10, <2>1 DEF Grown
<1>17. \A type, id : type # "APPLICATION" \/ id # a.id => entriesOf(type, id)' = entriesOf(type, id)
  BY <1>5, <1>6 DEF entriesOf
<1>18. \A id : roundsOf({id})' = roundsOf({id}) /\ feedbackOf({id})' = feedbackOf({id})
  BY <1>6 DEF roundsOf, feedbackOf
<1>19. Traces'
  <2> SUFFICES ASSUME NEW x \in application' PROVE traced(x)' \/ Unsettled(x.candidate)'
    BY DEF Traces
  <2>1. CASE x = b /\ traced(a)
    <3>1. entriesOf("APPLICATION", a.id)' = entriesOf("APPLICATION", a.id) \cup {<<told(row), Null>>}
      BY <1>5, <1>6, OneEntryMore
    <3>2. {<<told(y), Null>> : y \in ToSet(Tail(g))}
          = {<<told(y), Null>> : y \in ToSet(Tail(a.history))} \cup {<<told(row), Null>>}
      BY <1>9
    <3>3. entriesOf("APPLICATION", b.id)' = {<<told(y), Null>> : y \in ToSet(Tail(b.history))}
      BY <1>10, <2>1, <3>1, <3>2 DEF traced
    <3>4. \A id : /\ entriesOf("INTERVIEW", id)' = entriesOf("INTERVIEW", id)
                  /\ entriesOf("FEEDBACK", id)' = entriesOf("FEEDBACK", id)
      BY <1>17
    <3>5. ASSUME NEW i \in roundsOf({a.id})
          PROVE  roundTraced(i)' /\ \A f \in feedbackOf({i.id})' : entriesOf("FEEDBACK", f.id)' # {}
      <4>1. roundTraced(i) /\ \A f \in feedbackOf({i.id}) : entriesOf("FEEDBACK", f.id) # {}
        BY <2>1 DEF traced
      <4>2. roundTraced(i)'
        BY <3>4, <4>1 DEF roundTraced
      <4>3. \A f \in feedbackOf({i.id})' : entriesOf("FEEDBACK", f.id)' # {}
        BY <1>18, <3>4, <4>1
      <4> QED BY <4>2, <4>3
    <3> QED BY <1>10, <1>18, <2>1, <3>3, <3>5 DEF traced
  <2>2. CASE x = b /\ Unsettled(a.candidate)
    BY <1>1, <1>10, <2>2 DEF Unsettled
  <2>3. CASE x \in application /\ x # a /\ traced(x)
    <3>1. x.id # a.id
      BY <2>3 DEF IInv, Keys, Keyed
    <3> QED BY <1>17, <1>18, <2>3, <3>1, TracedStays
  <2>4. CASE x \in application /\ Unsettled(x.candidate)
    BY <1>1, <2>4 DEF Unsettled
  <2> QED BY <1>6, <2>1, <2>2, <2>3, <2>4 DEF IInv, Traces
<1> QED BY <1>1, <1>11, <1>12, <1>14, <1>15, <1>16, <1>19, RequestKeeps DEF IInv

\* createInterview.
LEMMA RoundCreated ==
  ASSUME IInv, Request, NEW a \in application, createInterview(a)
  PROVE  IInv'
<1>1. UNCHANGED <<run, at, found, doomed>> /\ disturbed' = TRUE
  BY DEF Request, script
<1>2. PICK id \in Nat : id = lastInterview + 1
  BY NextIds DEF IInv
<1>3. id \notin ids(interview) \cup named("INTERVIEW")
  BY <1>2, NextIds DEF IInv
<1>4. PICK i, e : /\ i = [id |-> id, app |-> a.id, panel |-> {}]
                  /\ e = AuditRow("INTERVIEW", id, "INTERVIEW_CREATED", Null, by)
  OBVIOUS
<1>5. /\ i.id = id /\ i.app = a.id /\ i.panel = {}
      /\ e.entityType = "INTERVIEW" /\ e.entityId = id /\ e.action = "INTERVIEW_CREATED" /\ e.about = Null /\ e.by = by
  BY <1>4, AuditRowIs
<1>6. /\ interview' = interview \cup {i} /\ auditLog' = auditLog \cup {e}
      /\ UNCHANGED <<account, profile, role, application, feedback>>
  <2>1. AuditOfRound(id, {}, by) = {e}
    BY <1>4 DEF AuditOfRound
  <2> QED BY <1>2, <1>4, <2>1 DEF createInterview
<1>7. a.id \in Nat /\ i \in InterviewRows
  BY <1>4 DEF IInv, Types, ApplicationRows, InterviewRows
<1>8. Types' /\ Histories'
  <2>1. by \in {"request", "beside"}
    BY DEF by
  <2>2. Entry(e)
    BY <1>5, <2>1 DEF Entry
  <2>3. Types'
    BY <1>1, <1>6, <1>7, <2>2 DEF IInv, Types
  <2> QED BY <1>6, <2>3 DEF IInv, Histories
<1>9. Keys'
  BY <1>3, <1>5, <1>6 DEF IInv, Keys, Keyed, ids
<1>10. References'
  BY <1>5, <1>6 DEF IInv, References, ids
<1>11. Bounds'
  <2>1. PICK I : I = ids(interview) \cup named("INTERVIEW") \cup doomed.interviews
    OBVIOUS
  <2>2. Bounded(I \cup {id})
    BY <2>1, OneMore DEF IInv, Bounds
  <2>3. /\ named("INTERVIEW")' = named("INTERVIEW") \cup {id}
        /\ named("APPLICATION")' = named("APPLICATION") /\ named("FEEDBACK")' = named("FEEDBACK")
    BY <1>5, <1>6 DEF named
  <2>4. ids(interview') = ids(interview) \cup {id}
    BY <1>5, <1>6 DEF ids
  <2>5. (ids(interview) \cup named("INTERVIEW") \cup doomed.interviews)' = I \cup {id}
    BY <1>1, <2>1, <2>3, <2>4
  <2> QED BY <1>1, <1>6, <2>2, <2>3, <2>5 DEF IInv, Bounds, ids
<1>12. Grown
  <2>1. exists(e)'
    BY <1>5, <1>6 DEF exists, ids
  <2> QED BY <1>3, <1>5, <1>6, <2>1 DEF Grown
<1>13. \A type, x : type # "INTERVIEW" \/ x # id => entriesOf(type, x)' = entriesOf(type, x)
  BY <1>5, <1>6 DEF entriesOf
<1>14. \A x : feedbackOf({x})' = feedbackOf({x})
  BY <1>6 DEF feedbackOf
<1>15. Traces'
  <2> SUFFICES ASSUME NEW x \in application, traced(x) PROVE traced(x)'
    BY <1>1, <1>6 DEF IInv, Traces, Unsettled
  <2>1. CASE x # a
    <3>1. x.id # a.id
      BY <2>1 DEF IInv, Keys, Keyed
    <3>2. roundsOf({x.id})' = roundsOf({x.id})
      BY <1>5, <1>6, <3>1 DEF roundsOf
    <3>3. \A j \in roundsOf({x.id}) : j.id # id
      BY <1>3 DEF roundsOf, ids
    <3> QED BY <1>13, <1>14, <3>2, <3>3, TracedStays
  <2>2. CASE x = a
    <3>1. entriesOf("APPLICATION", a.id)' = {<<told(row), Null>> : row \in ToSet(Tail(a.history))}
      BY <1>13, <2>2 DEF traced
    <3>2. roundsOf({a.id})' = roundsOf({a.id}) \cup {i}
      BY <1>5, <1>6 DEF roundsOf
    <3>3. ASSUME NEW j \in roundsOf({a.id})
          PROVE  roundTraced(j)' /\ \A f \in feedbackOf({j.id})' : entriesOf("FEEDBACK", f.id)' # {}
      <4>1. roundTraced(j) /\ \A f \in feedbackOf({j.id}) : entriesOf("FEEDBACK", f.id) # {}
        BY <2>2 DEF traced
      <4>2. j.id # id
        BY <1>3 DEF roundsOf, ids
      <4>3. roundTraced(j)'
        BY <1>13, <4>1, <4>2 DEF roundTraced
      <4>4. \A f \in feedbackOf({j.id})' : entriesOf("FEEDBACK", f.id)' # {}
        BY <1>13, <1>14, <4>1
      <4> QED BY <4>3, <4>4
    <3>4. roundTraced(i)'
      <4>1. entriesOf("INTERVIEW", id)' = entriesOf("INTERVIEW", id) \cup {<<"INTERVIEW_CREATED", Null>>}
        BY <1>5, <1>6, OneEntryMore
      <4>2. entriesOf("INTERVIEW", id) = {}
        BY <1>3, NoEntries
      <4> QED BY <1>5, <4>1, <4>2 DEF roundTraced
    <3>5. feedbackOf({i.id})' = {}
      BY <1>3, <1>5, <1>14 DEF feedbackOf, IInv, References
    <3> QED BY <2>2, <3>1, <3>2, <3>3, <3>4, <3>5 DEF traced
  <2> QED BY <2>1, <2>2
<1> QED BY <1>1, <1>8, <1>9, <1>10, <1>11, <1>12, <1>15, RequestKeeps DEF IInv

\* assignInterviewer.
LEMMA InterviewerAssigned ==
  ASSUME IInv, Request, NEW i \in interview, NEW u \in Interviewers, assignInterviewer(i, u)
  PROVE  IInv'
<1>1. UNCHANGED <<run, at, found, doomed>> /\ disturbed' = TRUE
  BY DEF Request, script
<1>2. PICK j, e : /\ j = [i EXCEPT !.panel = @ \cup {u}]
                  /\ e = AuditRow("INTERVIEW", i.id, "INTERVIEWER_ASSIGNED", u, by)
  OBVIOUS
<1>3. i \in InterviewRows /\ u \in Accounts
  BY AccountsAre DEF IInv, Types, Interviewers
<1>4. /\ j.id = i.id /\ j.app = i.app /\ j.panel = i.panel \cup {u} /\ j \in InterviewRows /\ i.id \in Nat
      /\ e.entityType = "INTERVIEW" /\ e.entityId = i.id /\ e.action = "INTERVIEWER_ASSIGNED" /\ e.about = u /\ e.by = by
  BY <1>2, <1>3, AuditRowIs DEF InterviewRows
<1>5. /\ interview' = (interview \ {i}) \cup {j} /\ auditLog' = auditLog \cup {e}
      /\ UNCHANGED <<account, profile, role, application, feedback>>
  BY <1>2 DEF assignInterviewer
<1>6. Types' /\ Histories'
  <2>1. by \in {"request", "beside"}
    BY DEF by
  <2>2. Entry(e)
    BY <1>4, <2>1 DEF Entry
  <2>3. Types'
    BY <1>1, <1>4, <1>5, <2>2 DEF IInv, Types
  <2> QED BY <1>5, <2>3 DEF IInv, Histories
<1>7. Keys'
  BY <1>4, <1>5 DEF IInv, Keys, Keyed
<1>8. ids(interview') = ids(interview) /\ i.id \in ids(interview)
  BY <1>4, <1>5 DEF ids
<1>9. References'
  BY <1>4, <1>5, <1>8 DEF IInv, References
<1>10. Bounds'
  <2>1. /\ named("INTERVIEW")' = named("INTERVIEW") \cup {i.id}
        /\ named("APPLICATION")' = named("APPLICATION") /\ named("FEEDBACK")' = named("FEEDBACK")
    BY <1>4, <1>5 DEF named
  <2>2. (ids(interview) \cup named("INTERVIEW") \cup doomed.interviews)'
          = ids(interview) \cup named("INTERVIEW") \cup doomed.interviews
    BY <1>1, <1>8, <2>1
  <2> QED BY <1>1, <1>5, <2>1, <2>2 DEF IInv, Bounds, ids
<1>11. Grown
  <2>1. exists(e)'
    BY <1>4, <1>8 DEF exists
  <2> QED BY <1>4, <1>5, <2>1 DEF Grown
<1>12. \A type, x : type # "INTERVIEW" \/ x # i.id => entriesOf(type, x)' = entriesOf(type, x)
  BY <1>4, <1>5 DEF entriesOf
<1>13. \A x : feedbackOf({x})' = feedbackOf({x})
  BY <1>5 DEF feedbackOf
<1>14. Traces'
  <2> SUFFICES ASSUME NEW x \in application, traced(x) PROVE traced(x)'
    BY <1>1, <1>5 DEF IInv, Traces, Unsettled
  <2>1. entriesOf("APPLICATION", x.id)' = {<<told(row), Null>> : row \in ToSet(Tail(x.history))}
    BY <1>12 DEF traced
  <2>2. ASSUME NEW k \in interview, k.app = x.id
        PROVE  roundTraced(k) /\ \A f \in feedbackOf({k.id}) : entriesOf("FEEDBACK", f.id) # {}
    BY <2>2 DEF traced, roundsOf
  <2>3. ASSUME NEW k \in interview, k.app = x.id PROVE \A f \in feedbackOf({k.id})' : entriesOf("FEEDBACK", f.id)' # {}
    BY <1>12, <1>13, <2>2, <2>3
  <2>4. ASSUME NEW k \in interview, k.app = x.id, k # i PROVE roundTraced(k)'
    <3>1. k.id # i.id
      BY <2>4 DEF IInv, Keys, Keyed
    <3>2. entriesOf("INTERVIEW", k.id)' = entriesOf("INTERVIEW", k.id)
      BY <1>12, <3>1
    <3> QED BY <2>2, <2>4, <3>2 DEF roundTraced
  <2>5. ASSUME i.app = x.id PROVE roundTraced(j)'
    <3>1. entriesOf("INTERVIEW", i.id)' = entriesOf("INTERVIEW", i.id) \cup {<<"INTERVIEWER_ASSIGNED", u>>}
      BY <1>4, <1>5, OneEntryMore
    <3>2. roundTraced(i)
      BY <2>2, <2>5
    <3>3. {<<"INTERVIEWER_ASSIGNED", v>> : v \in j.panel}
          = {<<"INTERVIEWER_ASSIGNED", v>> : v \in i.panel} \cup {<<"INTERVIEWER_ASSIGNED", u>>}
      BY <1>4
    <3> QED BY <1>4, <3>1, <3>2, <3>3 DEF roundTraced
  <2>6. ASSUME NEW k \in roundsOf({x.id})' PROVE roundTraced(k)'
               /\ \A f \in feedbackOf({k.id})' : entriesOf("FEEDBACK", f.id)' # {}
    <3>1. k \in interview' /\ k.app = x.id
      BY <2>6 DEF roundsOf
    <3>2. CASE k = j
      BY <1>4, <2>3, <2>5, <3>1, <3>2
    <3>3. CASE k \in interview /\ k # i
      BY <2>3, <2>4, <3>1, <3>3
    <3> QED BY <1>5, <3>1, <3>2, <3>3
  <2> QED BY <2>1, <2>6 DEF traced
<1> QED BY <1>1, <1>6, <1>7, <1>9, <1>10, <1>11, <1>14, RequestKeeps DEF IInv

\* submitFeedback.
LEMMA FeedbackSubmitted ==
  ASSUME IInv, Request, NEW i \in interview, NEW u \in Interviewers, submitFeedback(i, u)
  PROVE  IInv'
<1>1. UNCHANGED <<run, at, found, doomed>> /\ disturbed' = TRUE
  BY DEF Request, script
<1>2. PICK id \in Nat : id = lastFeedback + 1
  BY NextIds DEF IInv
<1>3. id \notin ids(feedback) \cup named("FEEDBACK")
  BY <1>2, NextIds DEF IInv
<1>4. PICK g, e : /\ g = [id |-> id, round |-> i.id, author |-> u]
                  /\ e = AuditRow("FEEDBACK", id, "FEEDBACK_SUBMITTED", Null, by)
  OBVIOUS
<1>5. /\ g.id = id /\ g.round = i.id
      /\ e.entityType = "FEEDBACK" /\ e.entityId = id /\ e.action = "FEEDBACK_SUBMITTED" /\ e.about = Null /\ e.by = by
  BY <1>4, AuditRowIs
<1>6. /\ feedback' = feedback \cup {g} /\ auditLog' = auditLog \cup {e}
      /\ UNCHANGED <<account, profile, role, application, interview>>
  BY <1>2, <1>4 DEF submitFeedback
<1>7. g \in FeedbackRows
  <2>1. i.id \in Nat
    BY DEF IInv, Types, InterviewRows
  <2>2. u \in Accounts
    BY AccountsAre DEF Interviewers
  <2> QED BY <1>4, <2>1, <2>2 DEF FeedbackRows
<1>8. Types' /\ Histories'
  <2>1. by \in {"request", "beside"}
    BY DEF by
  <2>2. Entry(e)
    BY <1>5, <2>1 DEF Entry
  <2>3. Types'
    BY <1>1, <1>6, <1>7, <2>2 DEF IInv, Types
  <2> QED BY <1>6, <2>3 DEF IInv, Histories
<1>9. Keys'
  BY <1>3, <1>5, <1>6 DEF IInv, Keys, Keyed, ids
<1>10. References'
  BY <1>5, <1>6 DEF IInv, References, ids
<1>11. Bounds'
  <2>1. PICK F : F = ids(feedback) \cup named("FEEDBACK") \cup doomed.feedback
    OBVIOUS
  <2>2. Bounded(F \cup {id})
    BY <2>1, OneMore DEF IInv, Bounds
  <2>3. /\ named("FEEDBACK")' = named("FEEDBACK") \cup {id}
        /\ named("APPLICATION")' = named("APPLICATION") /\ named("INTERVIEW")' = named("INTERVIEW")
    BY <1>5, <1>6 DEF named
  <2>4. ids(feedback') = ids(feedback) \cup {id}
    BY <1>5, <1>6 DEF ids
  <2>5. (ids(feedback) \cup named("FEEDBACK") \cup doomed.feedback)' = F \cup {id}
    BY <1>1, <2>1, <2>3, <2>4
  <2> QED BY <1>1, <1>6, <2>2, <2>3, <2>5 DEF IInv, Bounds, ids
<1>12. Grown
  <2>1. exists(e)'
    BY <1>5, <1>6 DEF exists, ids
  <2> QED BY <1>3, <1>5, <1>6, <2>1 DEF Grown
<1>13. \A type, x : type # "FEEDBACK" \/ x # id => entriesOf(type, x)' = entriesOf(type, x)
  BY <1>5, <1>6 DEF entriesOf
<1>14. \A x : roundsOf({x})' = roundsOf({x})
  BY <1>6 DEF roundsOf
<1>15. Traces'
  <2> SUFFICES ASSUME NEW x \in application, traced(x) PROVE traced(x)'
    BY <1>1, <1>6 DEF IInv, Traces, Unsettled
  <2>1. entriesOf("APPLICATION", x.id)' = {<<told(row), Null>> : row \in ToSet(Tail(x.history))}
    BY <1>13 DEF traced
  <2>2. ASSUME NEW k \in roundsOf({x.id}) PROVE roundTraced(k)'
               /\ \A f \in feedbackOf({k.id})' : entriesOf("FEEDBACK", f.id)' # {}
    <3>1. roundTraced(k) /\ \A f \in feedbackOf({k.id}) : entriesOf("FEEDBACK", f.id) # {}
      BY DEF traced
    <3>2. roundTraced(k)'
      BY <1>13, <3>1 DEF roundTraced
    <3>3. ASSUME NEW f \in feedbackOf({k.id})' PROVE entriesOf("FEEDBACK", f.id)' # {}
      <4>1. CASE f = g
        <5>1. entriesOf("FEEDBACK", id)' = entriesOf("FEEDBACK", id) \cup {<<"FEEDBACK_SUBMITTED", Null>>}
          BY <1>5, <1>6, OneEntryMore
        <5> QED BY <1>5, <4>1, <5>1
      <4>2. CASE f # g
        <5>1. f \in feedback /\ f \in feedbackOf({k.id})
          BY <1>6, <4>2 DEF feedbackOf
        <5>2. f.id # id
          BY <1>3, <5>1 DEF ids
        <5> QED BY <1>13, <3>1, <5>1, <5>2
      <4> QED BY <4>1, <4>2
    <3> QED BY <3>2, <3>3
  <2> QED BY <1>14, <2>1, <2>2 DEF traced
<1> QED BY <1>1, <1>8, <1>9, <1>10, <1>11, <1>12, <1>15, RequestKeeps DEF IInv

\* Every request keeps the invariant,
LEMMA RequestStep ==
  ASSUME IInv, Request, Requests
  PROVE  IInv'
<1>1. CASE \/ \E u \in DOMAIN account : signup(u)
           \/ \E c \in Seeded : updateCandidateContact(c)
           \/ \E title \in HandTitles : createRole(title)
           \/ \E r \in role, status \in {"OPEN", "CLOSED"} : updateRole(r, status)
           \/ \E r \in role : deleteRole(r)
  BY <1>1, RoleRequests
<1>2. CASE \E c \in Candidates, r \in role : createApplication(c, r)
  BY <1>2, Applied
<1>3. CASE \E a \in application : changeStage(a) \/ createInterview(a)
  BY <1>3, StageChanged, RoundCreated
<1>4. CASE \E i \in interview, u \in Interviewers : assignInterviewer(i, u)
  BY <1>4, InterviewerAssigned
<1>5. CASE \E i \in interview, u \in Interviewers : submitFeedback(i, u)
  BY <1>5, FeedbackSubmitted
<1> QED BY <1>1, <1>2, <1>3, <1>4, <1>5 DEF Requests

-----------------------------------------------------------------------------
\* and so does every step.
LEMMA Step ==
  ASSUME IInv, [Next]_vars
  PROVE  IInv'
<1>1. CASE Seeding
  <2>1. CASE UpsertUser \/ FindRole \/ CreateRole \/ FindPeople
    BY <2>1, UpsertUserStep, FindRoleStep, CreateRoleStep, FindPeopleStep
  <2>2. CASE FindCandidate \/ UpsertProfile \/ FindApplications \/ FindInterviews \/ FindFeedback
    BY <2>2, FindCandidateStep, UpsertProfileStep, FindApplicationsStep, FindInterviewsStep, FindFeedbackStep
  <2>3. CASE DeleteAudit \/ DeleteApplications \/ FindRoleOf \/ Transaction \/ Complete
    BY <2>3, DeleteAuditStep, DeleteApplicationsStep, FindRoleOfStep, TransactionStep, CompleteStep
  <2> QED BY <1>1, <2>1, <2>2, <2>3 DEF Seeding
<1>2. CASE Crash \/ Run
  BY <1>2, CrashStep, RunStep
<1>3. CASE Request /\ Requests
  BY <1>3, RequestStep
<1>4. CASE Idle \/ UNCHANGED vars
  BY <1>4, IdleStep DEF Idle
<1> QED BY <1>1, <1>2, <1>3, <1>4 DEF Next

-----------------------------------------------------------------------------
(***************************************************************************)
(* Where a database starts from.                                           *)
(***************************************************************************)
Good(t) ==
  /\ Sound(t)
  /\ \A a \in t.application : TracedIn(t, a) /\ a.role \in 1 .. 3
  /\ \A e \in t.auditLog : ExistsIn(t, e)
UsesOnly(t, apps, rounds, assessments) ==
  usedApplications(t) \subseteq apps /\ usedInterviews(t) \subseteq rounds /\ usedFeedback(t) \subseteq assessments

Before(c, n, app) == Written(c, SeedRoles[n].title, n, app, n, n)

LEMMA BeforeIs ==
  ASSUME NEW c \in Seeded, NEW k \in 1 .. Len(plans(c)), NEW n \in 1 .. 3, SeedRoles[n].title = plans(c)[k].title,
         NEW app \in Nat, NEW w, w = Before(c, n, app)
  PROVE  Good(w) /\ AsWritten(w, c, SeedRoles[n].title, n, app, n, n) /\ Uses(w, c, SeedRoles[n].title, app, n, n)
<1>1. PICK title : title = SeedRoles[n].title
  OBVIOUS
<1>2. n \in Nat /\ title = plans(c)[k].title /\ w = Written(c, title, n, app, n, n)
  BY <1>1 DEF Before
<1>3. AsWritten(w, c, title, n, app, n, n)
  BY <1>2, WrittenIs
<1>4. Uses(w, c, title, app, n, n)
  BY <1>2, <1>3, WrittenUses
<1>5. Good(w)
  BY <1>3 DEF Good, AsWritten
<1> QED BY <1>1, <1>3, <1>4, <1>5

\* A round nobody has assessed, and no round.
LEMMA NoAuthors ==
  ASSUME NEW c \in Seeded, NEW title, NEW roleId, NEW app, NEW round, NEW assessment,
         NEW w, AsWritten(w, c, title, roleId, app, round, assessment),
         \A n \in plannedRounds(c, title) : SeedCandidates[c].interviews[n].authors = {}
  PROVE  w.feedback = {}
<1> SUFFICES ASSUME NEW f \in w.feedback PROVE FALSE
  OBVIOUS
<1>1. PICK i \in w.interview : f.round = i.id
  BY DEF AsWritten, Sound, ids
<1>2. {<<j.panel, {g.author : g \in {x \in w.feedback : x.round = j.id}}>> : j \in w.interview}
        = {<<SeedCandidates[c].interviews[n].panel, SeedCandidates[c].interviews[n].authors>> :
        n \in plannedRounds(c, title)}
  BY Zenon DEF AsWritten
<1>3. PICK authors : authors = {g.author : g \in {x \in w.feedback : x.round = i.id}}
  OBVIOUS
<1>4. f.author \in authors
  BY <1>1, <1>3
<1>5. <<i.panel, authors>> \in {<<SeedCandidates[c].interviews[n].panel, SeedCandidates[c].interviews[n].authors>> :
      n \in plannedRounds(c, title)}
  BY <1>2, <1>3
<1>6. PICK n \in plannedRounds(c, title) : authors = SeedCandidates[c].interviews[n].authors
  BY <1>5
<1> QED BY <1>4, <1>6

LEMMA RoundsOfTitles ==
  /\ plannedRounds("candidate", "Backend") = {1} /\ plannedRounds("candidate", "Designer") = {2}
  /\ plannedRounds("candidate", "Manager") = {} /\ plannedRounds("candidate2", "Manager") = {}
  /\ SeedCandidates["candidate"].interviews[1].authors = {"interviewer1"}
  /\ SeedCandidates["candidate"].interviews[2].authors = {}
<1>1. /\ DOMAIN SeedInterviews = 1 .. 2 /\ SeedInterviews[1].title = "Backend" /\ SeedInterviews[2].title = "Designer"
      /\ SeedInterviews[1].authors = {"interviewer1"} /\ SeedInterviews[2].authors = {}
  BY DEF SeedInterviews, Round
<1>2. DOMAIN SeedCandidates["candidate2"].interviews = {} /\ SeedCandidates["candidate"].interviews = SeedInterviews
  BY PlansAre
<1>3. 1 .. 2 = {1, 2}
  OBVIOUS
<1>4. plannedRounds("candidate", "Backend") = {1} /\ plannedRounds("candidate", "Designer") = {2}
      /\ plannedRounds("candidate", "Manager") = {}
  BY <1>1, <1>2, <1>3 DEF plannedRounds
<1>5. plannedRounds("candidate2", "Manager") = {}
  BY <1>2 DEF plannedRounds
<1> QED BY <1>1, <1>2, <1>4, <1>5

LEMMA RoleTitles == SeedRoles[1].title = "Backend" /\ SeedRoles[2].title = "Designer" /\ SeedRoles[3].title = "Manager"
BY DEF SeedRoles

LEMMA FirstAssessment ==
  ASSUME NEW w, w = Before("candidate", 1, 1)
  PROVE  ids(w.feedback) \subseteq {3}
<1>1. Len(SeedAccounts) = 5 /\ DOMAIN SeedAccounts = 1 .. 5 /\ SeedAccounts[2] = "interviewer1"
  BY DEF SeedAccounts
<1>2. \A s \in seats("candidate", "Backend") : s[1] = 1 /\ s[2] = 2
  <2> SUFFICES ASSUME NEW s \in seats("candidate", "Backend") PROVE s[1] = 1 /\ s[2] = 2
    OBVIOUS
  <2>1. s[1] = 1 /\ s[2] \in 1 .. 5 /\ SeedAccounts[s[2]] = "interviewer1"
    BY <1>1, RoundsOfTitles DEF seats
  <2>2. 2 \in 1 .. 5
    OBVIOUS
  <2> QED BY <1>1, <2>1, <2>2, AccountsAre
<1>3. w.feedback = {[id |-> 1 + Len(SeedAccounts) * (s[1] - 1) + s[2], round |-> 1 + s[1], author |-> SeedAccounts[s[2]]]
                      : s \in seats("candidate", "Backend")}
  BY RoleTitles DEF Before, Written
<1>4. \A f \in w.feedback : f.id = 3
  <2> SUFFICES ASSUME NEW f \in w.feedback PROVE f.id = 3
    OBVIOUS
  <2>1. PICK s \in seats("candidate", "Backend") :
        f = [id |-> 1 + Len(SeedAccounts) * (s[1] - 1) + s[2], round |-> 1 + s[1], author |-> SeedAccounts[s[2]]]
    BY <1>3
  <2>2. f.id = 1 + Len(SeedAccounts) * (s[1] - 1) + s[2]
    BY <2>1
  <2>3. f.id = 1 + 5 * (1 - 1) + 2
    BY <1>1, <1>2, <2>2, Zenon
  <2> QED BY <2>3
<1> QED BY <1>4 DEF ids

LEMMA FourBefore ==
  /\ Good(Before("candidate", 1, 1)) /\ UsesOnly(Before("candidate", 1, 1), {1}, {2}, {3})
  /\ Good(Before("candidate", 2, 2)) /\ UsesOnly(Before("candidate", 2, 2), {2}, {4}, {})
  /\ Good(Before("candidate", 3, 3)) /\ UsesOnly(Before("candidate", 3, 3), {3}, {}, {})
  /\ Good(Before("candidate2", 3, 6)) /\ UsesOnly(Before("candidate2", 3, 6), {6}, {}, {})
<1>1. /\ "candidate" \in Seeded /\ "candidate2" \in Seeded
      /\ 1 \in 1 .. Len(plans("candidate")) /\ 2 \in 1 .. Len(plans("candidate")) /\ 3 \in 1 .. Len(plans("candidate"))
      /\ 1 \in 1 .. Len(plans("candidate2"))
  <2>1. (\A k \in 1 .. 3 : k \in 1 .. Len(plans("candidate"))) /\ 1 .. Len(plans("candidate2")) = 1 .. 1
    BY PlansAre, ApplicationsAre DEF plans
  <2>2. 1 \in 1 .. 3 /\ 2 \in 1 .. 3 /\ 3 \in 1 .. 3 /\ 1 \in 1 .. 1
    OBVIOUS
  <2> QED BY <2>1, <2>2, StartsAre
<1>2. /\ plans("candidate")[1].title = "Backend" /\ plans("candidate")[2].title = "Designer"
      /\ plans("candidate")[3].title = "Manager" /\ plans("candidate2")[1].title = "Manager"
  BY PlansAre, ApplicationsAre DEF plans
<1>3. 1 \in 1 .. 3 /\ 2 \in 1 .. 3 /\ 3 \in 1 .. 3 /\ 1 \in Nat /\ 2 \in Nat /\ 3 \in Nat /\ 6 \in Nat
  OBVIOUS
<1>4. ASSUME NEW w, w = Before("candidate", 1, 1) PROVE Good(w) /\ UsesOnly(w, {1}, {2}, {3})
  <2>1. Good(w) /\ Uses(w, "candidate", SeedRoles[1].title, 1, 1, 1)
    BY <1>1, <1>2, <1>3, <1>4, RoleTitles, BeforeIs
  <2>2. {1 + n : n \in plannedRounds("candidate", "Backend")} = {2}
    BY RoundsOfTitles
  <2> QED BY <1>4, <2>1, <2>2, RoleTitles, FirstAssessment DEF Uses, UsesOnly
<1>5. ASSUME NEW w, w = Before("candidate", 2, 2) PROVE Good(w) /\ UsesOnly(w, {2}, {4}, {})
  <2>1. /\ Good(w) /\ Uses(w, "candidate", "Designer", 2, 2, 2)
        /\ AsWritten(w, "candidate", "Designer", 2, 2, 2, 2)
    BY <1>1, <1>2, <1>3, <1>5, RoleTitles, BeforeIs
  <2>2. {2 + n : n \in plannedRounds("candidate", "Designer")} = {4}
    BY RoundsOfTitles
  <2>3. w.feedback = {}
    BY <1>1, <2>1, RoundsOfTitles, NoAuthors
  <2> QED BY <2>1, <2>2, <2>3 DEF Uses, UsesOnly, ids
<1>6. ASSUME NEW w, w = Before("candidate", 3, 3) PROVE Good(w) /\ UsesOnly(w, {3}, {}, {})
  <2>1. /\ Good(w) /\ Uses(w, "candidate", "Manager", 3, 3, 3)
        /\ AsWritten(w, "candidate", "Manager", 3, 3, 3, 3)
    BY <1>1, <1>2, <1>3, <1>6, RoleTitles, BeforeIs
  <2>2. w.feedback = {}
    BY <1>1, <2>1, RoundsOfTitles, NoAuthors
  <2> QED BY <2>1, <2>2, RoundsOfTitles DEF Uses, UsesOnly, ids
<1>7. ASSUME NEW w, w = Before("candidate2", 3, 6) PROVE Good(w) /\ UsesOnly(w, {6}, {}, {})
  <2>1. /\ Good(w) /\ Uses(w, "candidate2", "Manager", 6, 3, 3)
        /\ AsWritten(w, "candidate2", "Manager", 3, 6, 3, 3)
    BY <1>1, <1>2, <1>3, <1>7, RoleTitles, BeforeIs
  <2>2. w.feedback = {}
    BY <1>1, <2>1, RoundsOfTitles, NoAuthors
  <2> QED BY <2>1, <2>2, RoundsOfTitles DEF Uses, UsesOnly, ids
<1> QED BY <1>4, <1>5, <1>6, <1>7

\* What requests have made of another candidate is sound and traced.
LEMMA ByHandIs ==
  ASSUME NEW c \in Candidates, NEW id \in Nat, NEW t, t = ByHand(c, id)
  PROVE  Good(t) /\ UsesOnly(t, {id}, {id}, {id})
<1>1. PICK u : u = CHOOSE v \in Interviewers : TRUE
  OBVIOUS
<1>2. u \in Accounts
  <2>1. seedRole["interviewer1"] = "INTERVIEWER" /\ "interviewer1" \in DOMAIN seedRole
    BY DEF seedRole
  <2>2. Interviewers # {}
    BY <2>1 DEF Interviewers
  <2>3. u \in Interviewers
    BY <1>1, <2>2
  <2> QED BY <2>3, AccountsAre DEF Interviewers
<1>3. PICK h : h = <<EntryRow>>
  OBVIOUS
<1>4. h \in Seq(HistoryRows) /\ h # <<>> /\ Last(h) = EntryRow /\ Tail(h) = <<>>
  <2>1. EntryRow \in HistoryRows
    BY DEF EntryRow, HistoryRow, HistoryRows, Stages, Statuses
  <2> QED BY <1>3, <2>1 DEF Last
<1>5. PICK a, i, f, e1, e2, e3 :
        /\ a = [id |-> id, candidate |-> c, role |-> 1, status |-> "ACTIVE", stage |-> "APPLIED", history |-> h]
        /\ i = [id |-> id, app |-> id, panel |-> {u}]
        /\ f = [id |-> id, round |-> id, author |-> u]
        /\ e1 = AuditRow("INTERVIEW", id, "INTERVIEW_CREATED", Null, "request")
        /\ e2 = AuditRow("INTERVIEW", id, "INTERVIEWER_ASSIGNED", u, "request")
        /\ e3 = AuditRow("FEEDBACK", id, "FEEDBACK_SUBMITTED", Null, "request")
  OBVIOUS
<1>6. t.application = {a} /\ t.interview = {i} /\ t.feedback = {f}
  BY <1>1, <1>3, <1>5 DEF ByHand
<1>7. t.auditLog = {e1, e2, e3}
  <2>1. AuditOfRound(id, {u}, "request") = {e1, e2}
    BY <1>5 DEF AuditOfRound
  <2>2. t.auditLog = AuditOfRound(id, {u}, "request") \cup {e3}
    BY <1>1, <1>5 DEF ByHand
  <2> QED BY <2>1, <2>2
<1>8. /\ a.id = id /\ a.role = 1 /\ a.stage = "APPLIED" /\ a.status = "ACTIVE" /\ a.history = h
      /\ i.id = id /\ i.app = id /\ i.panel = {u} /\ f.id = id /\ f.round = id
  BY <1>5
<1>9. /\ e1.entityType = "INTERVIEW" /\ e1.entityId = id /\ e1.action = "INTERVIEW_CREATED" /\ e1.about = Null
         /\ e1.by = "request"
      /\ e2.entityType = "INTERVIEW" /\ e2.entityId = id /\ e2.action = "INTERVIEWER_ASSIGNED" /\ e2.about = u
         /\ e2.by = "request"
      /\ e3.entityType = "FEEDBACK" /\ e3.entityId = id /\ e3.action = "FEEDBACK_SUBMITTED" /\ e3.about = Null
         /\ e3.by = "request"
  BY <1>5, AuditRowIs
<1>10. Sound(t)
  <2>1. a \in ApplicationRows
    BY <1>4, <1>5 DEF ApplicationRows, Statuses, Stages
  <2>2. i \in InterviewRows /\ f \in FeedbackRows
    BY <1>2, <1>5 DEF InterviewRows, FeedbackRows
  <2>3. Told(a)
    BY <1>4, <1>8 DEF Told, EntryRow, HistoryRow
  <2>4. \A e \in t.auditLog : Entry(e)
    BY <1>7, <1>9 DEF Entry
  <2> QED BY <1>6, <1>8, <2>1, <2>2, <2>3, <2>4 DEF Sound, Keyed, ids
<1>11. TracedIn(t, a)
  <2>1. EntriesIn(t.auditLog, "APPLICATION", id) = {}
    BY <1>7, <1>9 DEF EntriesIn
  <2>2. {<<told(row), Null>> : row \in ToSet(Tail(h))} = {}
    BY <1>4 DEF ToSet
  <2>3. {x \in t.auditLog : x.entityType = "INTERVIEW" /\ x.entityId = id} = {e1, e2}
    BY <1>7, <1>9
  <2>4. EntriesIn(t.auditLog, "INTERVIEW", id) = {<<"INTERVIEW_CREATED", Null>>, <<"INTERVIEWER_ASSIGNED", u>>}
    BY <1>9, <2>3 DEF EntriesIn
  <2>5. {<<"INTERVIEWER_ASSIGNED", v>> : v \in i.panel} = {<<"INTERVIEWER_ASSIGNED", u>>}
    BY <1>8
  <2>6. EntriesIn(t.auditLog, "FEEDBACK", id) # {}
    BY <1>7, <1>9 DEF EntriesIn
  <2> QED BY <1>6, <1>8, <2>1, <2>2, <2>4, <2>5, <2>6 DEF TracedIn
<1>12. \A e \in t.auditLog : ExistsIn(t, e)
  BY <1>6, <1>7, <1>8, <1>9 DEF ExistsIn, ids
<1>13. UsesOnly(t, {id}, {id}, {id})
  BY <1>6, <1>7, <1>8, <1>9 DEF UsesOnly, usedApplications, usedInterviews, usedFeedback, namedIn, ids
<1> QED BY <1>6, <1>8, <1>10, <1>11, <1>12, <1>13 DEF Good

LEMMA FiveTables ==
  ASSUME NEW t1, NEW t2, NEW t3, NEW t4, NEW t5, NEW S, S = {t1, t2, t3, t4, t5}, NEW all, all = Together(S),
         \A t \in S : Good(t),
         UsesOnly(t1, {1}, {2}, {3}), UsesOnly(t2, {2}, {4}, {}), UsesOnly(t3, {3}, {}, {}), UsesOnly(t4, {6}, {}, {}),
         UsesOnly(t5, {7}, {7}, {7})
  PROVE  Good(all) /\ UsesOnly(all, 1 .. 7, 1 .. 7, 1 .. 7)
<1>1. \A t, u \in S : t = u \/ Apart(t, u)
  BY DEF UsesOnly, Apart
<1>2. \A t \in S : Sound(t)
  BY DEF Good
<1>3. Sound(all)
  BY <1>1, <1>2, TogetherIsSound
<1>4. /\ \A x : x \in all.application <=> \E t \in S : x \in t.application
      /\ \A x : x \in all.interview <=> \E t \in S : x \in t.interview
      /\ \A x : x \in all.feedback <=> \E t \in S : x \in t.feedback
      /\ \A x : x \in all.auditLog <=> \E t \in S : x \in t.auditLog
  BY DEF Together
<1>5. \A t \in S : \A a \in t.application : TracedIn(all, a)
  BY <1>1, <1>2, TogetherIsTraced DEF Good
<1>6. \A a \in all.application : TracedIn(all, a) /\ a.role \in 1 .. 3
  BY <1>4, <1>5 DEF Good
<1>7. \A e \in all.auditLog : ExistsIn(all, e)
  <2> SUFFICES ASSUME NEW t \in S, NEW e \in t.auditLog PROVE ExistsIn(all, e)
    BY <1>4
  <2>1. ids(t.application) \subseteq ids(all.application) /\ ids(t.interview) \subseteq ids(all.interview)
        /\ ids(t.feedback) \subseteq ids(all.feedback)
    BY <1>4 DEF ids
  <2> QED BY <2>1 DEF Good, ExistsIn
<1>8. \A t \in S : UsesOnly(t, 1 .. 7, 1 .. 7, 1 .. 7)
  <2>1. 1 \in 1 .. 7 /\ 2 \in 1 .. 7 /\ 3 \in 1 .. 7 /\ 4 \in 1 .. 7 /\ 6 \in 1 .. 7 /\ 7 \in 1 .. 7
    OBVIOUS
  <2> QED BY <2>1 DEF UsesOnly
<1>9. /\ \A id \in usedApplications(all) : \E t \in S : id \in usedApplications(t)
      /\ \A id \in usedInterviews(all) : \E t \in S : id \in usedInterviews(t)
      /\ \A id \in usedFeedback(all) : \E t \in S : id \in usedFeedback(t)
  <2>1. \A id \in usedApplications(all) : \E t \in S : id \in usedApplications(t)
    BY <1>4 DEF usedApplications, namedIn, ids
  <2>2. \A id \in usedInterviews(all) : \E t \in S : id \in usedInterviews(t)
    BY <1>4 DEF usedInterviews, namedIn, ids
  <2>3. \A id \in usedFeedback(all) : \E t \in S : id \in usedFeedback(t)
    BY <1>4 DEF usedFeedback, namedIn, ids
  <2> QED BY <2>1, <2>2, <2>3
<1>10. UsesOnly(all, 1 .. 7, 1 .. 7, 1 .. 7)
  BY <1>8, <1>9 DEF UsesOnly
<1> QED BY <1>3, <1>6, <1>7, <1>10 DEF Good

\* A used database has the tables of its transactions together.
LEMMA SeededBeforeIs ==
  ASSUME SeededBefore
  PROVE  /\ account = seedRole /\ profile \in [Seeded -> {Null, "seeded", "patched"}]
         /\ role \subseteq RoleRows /\ Keyed(role) /\ ids(role) = 1 .. 3
         /\ \E all : all = tables /\ Good(all) /\ UsesOnly(all, 1 .. 7, 1 .. 7, 1 .. 7)
<1> DEFINE roles0 == [n \in 1 .. Len(SeedRoles) |-> SeedRoles[n].title]
           made0 == {x \in Seeded \X (1 .. Len(roles0)) :
                       \E plan \in ToSet(SeedCandidates[x[1]].applications) : plan.title = roles0[x[2]]}
           number(c, n) == IF c = "candidate" THEN n ELSE Len(roles0) + n
           written0 == {Written(x[1], roles0[x[2]], x[2], number(x[1], x[2]), x[2], x[2]) : x \in made0}
           rows0(o) == written0 \cup {ByHand(o, 2 * Len(roles0) + 1)}
<1>0. PICK other \in OtherCandidates :
        /\ account = seedRole
        /\ profile = [c \in Seeded |-> IF SeedCandidates[c].profile THEN "seeded" ELSE Null]
        /\ role = {[id |-> n, title |-> roles0[n], status |-> SeedRoles[n].status] : n \in 1 .. Len(roles0)}
        /\ application = UNION {new.application : new \in rows0(other)}
        /\ interview = UNION {new.interview : new \in rows0(other)}
        /\ feedback = UNION {new.feedback : new \in rows0(other)}
        /\ auditLog = UNION {new.auditLog : new \in rows0(other)}
  BY Zenon DEF SeededBefore
<1>1. PICK roles, made, written, S :
        /\ roles = [n \in 1 .. Len(SeedRoles) |-> SeedRoles[n].title]
        /\ made = {x \in Seeded \X (1 .. Len(roles)) : \E plan \in ToSet(SeedCandidates[x[1]].applications) :
           plan.title = roles[x[2]]}
        /\ written = {Written(x[1], roles[x[2]], x[2], IF x[1]
           = "candidate" THEN x[2] ELSE Len(roles) + x[2], x[2], x[2]) : x \in made}
        /\ S = written \cup {ByHand(other, 2 * Len(roles) + 1)}
        /\ account = seedRole
        /\ profile = [c \in Seeded |-> IF SeedCandidates[c].profile THEN "seeded" ELSE Null]
        /\ role = {[id |-> n, title |-> roles[n], status |-> SeedRoles[n].status] : n \in 1 .. Len(roles)}
        /\ application = UNION {new.application : new \in S}
        /\ interview = UNION {new.interview : new \in S}
        /\ feedback = UNION {new.feedback : new \in S}
        /\ auditLog = UNION {new.auditLog : new \in S}
  BY <1>0
<1> HIDE DEF roles0, made0, number, written0, rows0
<1>2. Len(roles) = 3 /\ \A n \in 1 .. 3 : roles[n] = SeedRoles[n].title
  <2>1. Len(SeedRoles) = 3
    BY DEF SeedRoles
  <2>2. roles = [n \in 1 .. 3 |-> SeedRoles[n].title]
    BY <1>1, <2>1, Zenon
  <2>3. \A n \in 1 .. 3 : SeedRoles[n].title \in Titles
    BY <2>1 DEF Titles
  <2>4. roles \in [1 .. 3 -> Titles]
    BY <2>2, <2>3
  <2>5. 3 \in Nat
    OBVIOUS
  <2>6. Len(roles) = 3
    BY <2>4, <2>5, FunctionIsSeq, Zenon
  <2> QED BY <2>2, <2>6, Zenon
<1>3. /\ role \subseteq RoleRows /\ Keyed(role) /\ ids(role) = 1 .. 3
  <2>1. \A n \in 1 .. 3 : roles[n] \in Titles /\ SeedRoles[n].status \in {"OPEN", "CLOSED"}
    <3>1. \A n \in 1 .. 3 : SeedRoles[n].status \in {"OPEN", "CLOSED"}
      BY DEF SeedRoles
    <3> QED BY <1>2, <3>1, RoleTitles, TitlesAre
  <2>2. role = {[id |-> n, title |-> roles[n], status |-> SeedRoles[n].status] : n \in 1 .. 3}
    BY <1>1, <1>2, Zenon
  <2>3. role \subseteq RoleRows
    BY <2>1, <2>2 DEF RoleRows
  <2>4. Keyed(role)
    BY <2>2 DEF Keyed
  <2>5. ids(role) = 1 .. 3
    <3>1. \A r \in role : r.id \in 1 .. 3
      BY <2>2
    <3>2. ASSUME NEW n \in 1 .. 3 PROVE \E r \in role : r.id = n
      <4>1. [id |-> n, title |-> roles[n], status |-> SeedRoles[n].status] \in role
        BY <2>2
      <4>2. [id |-> n, title |-> roles[n], status |-> SeedRoles[n].status].id = n
        OBVIOUS
      <4> QED BY <4>1, <4>2
    <3> QED BY <3>1, <3>2 DEF ids
  <2> QED BY <2>3, <2>4, <2>5
<1>4. made = {<<"candidate", 1>>, <<"candidate", 2>>, <<"candidate", 3>>, <<"candidate2", 3>>}
  <2>1. \A c \in Seeded : \A n \in 1 .. 3 :
          (\E plan \in ToSet(SeedCandidates[c].applications) : plan.title = roles[n]) <=> c = "candidate" \/ n = 3
    <3>1. /\ \A title : (\E plan \in ToSet(SeedApplications) : plan.title = title) <=>
             title \in {"Backend", "Designer", "Manager"}
          /\ \A title : (\E plan \in ToSet(SeedOtherApplications) : plan.title = title) <=> title = "Manager"
      BY DEF ToSet, SeedApplications, SeedOtherApplications
    <3>2. \A n \in 1 .. 3 : roles[n] \in {"Backend", "Designer", "Manager"} /\ (roles[n] = "Manager" <=> n = 3)
      BY <1>2, RoleTitles
    <3>3. /\ "candidate" # "candidate2" /\ Seeded = {"candidate", "candidate2"}
          /\ SeedCandidates["candidate"].applications = SeedApplications
          /\ SeedCandidates["candidate2"].applications = SeedOtherApplications
      BY PlansAre
    <3>4. \A n \in 1 .. 3 : \E plan \in ToSet(SeedCandidates["candidate"].applications) : plan.title = roles[n]
      BY <3>1, <3>2, <3>3, Zenon
    <3>5. \A n \in 1 .. 3 : (\E plan \in ToSet(SeedCandidates["candidate2"].applications) : plan.title = roles[n]) <=>
          n = 3
      BY <3>1, <3>2, <3>3, Zenon
    <3> QED BY <3>3, <3>4, <3>5, Zenon
  <2>2. made = {x \in Seeded \X (1 .. 3) : \E plan \in ToSet(SeedCandidates[x[1]].applications) :
        plan.title = roles[x[2]]}
    BY <1>1, <1>2, Zenon
  <2>3. \A x : x \in made <=> \E c \in Seeded, n \in 1 .. 3 : x = <<c, n>> /\ (c = "candidate" \/ n = 3)
    BY <2>1, <2>2
  <2> QED BY <2>3, PlansAre
<1>5. PICK t1, t2, t3, t4, t5 :
        /\ t1 = Before("candidate", 1, 1) /\ t2 = Before("candidate", 2, 2) /\ t3 = Before("candidate", 3, 3)
        /\ t4 = Before("candidate2", 3, 6) /\ t5 = ByHand(other, 7)
  OBVIOUS
<1>6. written = {t1, t2, t3, t4}
  <2> DEFINE New(c, n) == Written(c, roles[n], n, IF c = "candidate" THEN n ELSE 3 + n, n, n)
  <2>1. written = {New(x[1], x[2]) : x \in made}
    BY <1>1, <1>2, Zenon
  <2>2. New("candidate", 1) = t1 /\ New("candidate", 2) = t2 /\ New("candidate", 3) = t3 /\ New("candidate2", 3) = t4
    BY <1>2, <1>5 DEF Before
  <2> HIDE DEF New
  <2> QED BY <1>4, <2>1, <2>2
<1>7. S = {t1, t2, t3, t4, t5}
  <2>1. 2 * 3 + 1 = 7
    OBVIOUS
  <2>2. S = written \cup {ByHand(other, 2 * 3 + 1)}
    BY <1>1, <1>2, Zenon
  <2> QED BY <1>5, <1>6, <2>1, <2>2
<1>8. tables = Together(S)
  BY <1>1, Zenon DEF tables, Together
<1>9. Good(tables) /\ UsesOnly(tables, 1 .. 7, 1 .. 7, 1 .. 7)
  <2>1. PICK all : all = Together(S)
    OBVIOUS
  <2>2. Good(t5) /\ UsesOnly(t5, {7}, {7}, {7})
    <3>1. other \in Candidates /\ 7 \in Nat
      BY <1>1 DEF Candidates
    <3> QED BY <1>5, <3>1, ByHandIs
  <2>3. /\ \A t \in S : Good(t)
        /\ UsesOnly(t1, {1}, {2}, {3}) /\ UsesOnly(t2, {2}, {4}, {}) /\ UsesOnly(t3, {3}, {}, {})
           /\ UsesOnly(t4, {6}, {}, {})
    BY <1>5, <1>7, <2>2, FourBefore
  <2>4. Good(all) /\ UsesOnly(all, 1 .. 7, 1 .. 7, 1 .. 7)
    BY <1>7, <2>1, <2>2, <2>3, FiveTables
  <2> QED BY <1>8, <2>1, <2>4
<1>10. profile \in [Seeded -> {Null, "seeded", "patched"}]
  BY <1>1
<1> QED BY <1>1, <1>3, <1>9, <1>10

\* A run may begin from a new database or from that one.
LEMMA InitIs ==
  ASSUME Init
  PROVE  IInv
<1>1. run = "never" /\ at = 0 /\ found = 0 /\ doomed = NothingDoomed /\ disturbed \in BOOLEAN
  BY DEF Init
<1>2. doomed \in [applications : SUBSET Nat, interviews : SUBSET Nat, feedback : SUBSET Nat]
      /\ doomed.applications = {} /\ doomed.interviews = {} /\ doomed.feedback = {}
  BY <1>1 DEF NothingDoomed
<1>3. Places /\ UnseenIsBeside /\ Progress
  BY <1>1 DEF Places, UnseenIsBeside, Progress, Collecting, Clearing
<1>4. ASSUME NEW U, U \subseteq 0 .. 7 PROVE Bounded(U)
  <2>1. 7 \in Nat /\ \A id \in U : id \in Nat /\ id =< 7
    BY <1>4
  <2> QED BY <2>1 DEF Bounded
<1>5. CASE Blank
  <2>1. /\ role = {} /\ application = {} /\ interview = {} /\ feedback = {} /\ auditLog = {}
        /\ account = [u \in Accounts |-> Null] /\ profile = [c \in Seeded |-> Null]
    BY <1>5, AccountsAre DEF Blank
  <2>2. Types
    BY <1>1, <1>2, <2>1 DEF Types
  <2>3. Keys /\ References /\ Histories /\ Traces /\ NoneDangles
    BY <2>1 DEF Keys, Keyed, References, Histories, Traces, NoneDangles
  <2>4. \A type : named(type) = {}
    BY <2>1 DEF named
  <2>5. ids(role) = {} /\ ids(application) = {} /\ ids(interview) = {} /\ ids(feedback) = {}
    BY <2>1 DEF ids
  <2>6. {} \subseteq 0 .. 7 /\ {0} \subseteq 0 .. 7
    OBVIOUS
  <2>7. Bounded({}) /\ Bounded({0})
    BY <1>4, <2>6
  <2>8. Bounds
    <3>1. /\ ids(application) \cup named("APPLICATION") \cup doomed.applications = {}
          /\ ids(interview) \cup named("INTERVIEW") \cup doomed.interviews = {}
          /\ ids(feedback) \cup named("FEEDBACK") \cup doomed.feedback = {} /\ ids(role) \cup {found} = {0}
      BY <1>1, <1>2, <2>4, <2>5
    <3> QED BY <2>7, <3>1 DEF Bounds
  <2> QED BY <1>3, <2>2, <2>3, <2>8 DEF IInv
<1>6. CASE SeededBefore
  <2>1. /\ account = seedRole /\ profile \in [Seeded -> {Null, "seeded", "patched"}]
        /\ role \subseteq RoleRows /\ Keyed(role) /\ ids(role) = 1 .. 3
        /\ Good(tables) /\ UsesOnly(tables, 1 .. 7, 1 .. 7, 1 .. 7)
    BY <1>6, SeededBeforeIs
  <2>2. /\ tables.application = application /\ tables.interview = interview
        /\ tables.feedback = feedback /\ tables.auditLog = auditLog
    BY DEF tables
  <2>3. account \in [Accounts -> {"RECRUITER", "INTERVIEWER", "CANDIDATE", Null}]
    BY <2>1 DEF seedRole, Accounts
  <2>4. Types
    <3>1. found \in Nat /\ at \in Nat /\ run \in {"never", "running", "complete", "failed", "crashed"}
      BY <1>1
    <3>2. /\ application \subseteq ApplicationRows /\ interview \subseteq InterviewRows /\ feedback \subseteq FeedbackRows
          /\ \A e \in auditLog : Entry(e)
      BY <2>1, <2>2 DEF Good, Sound
    <3> QED BY <1>1, <1>2, <2>1, <2>3, <3>1, <3>2 DEF Types
  <2>5. Keys /\ References /\ Histories
    BY <2>1, <2>2 DEF Good, Sound, Keys, References, Histories
  <2>6. Traces
    BY <2>1, <2>2, TracedIs DEF Good, Traces
  <2>7. NoneDangles
    <3>1. \A e \in auditLog : Entry(e) /\ ExistsIn(tables, e)
      BY <2>1, <2>2 DEF Good, Sound
    <3> QED BY <3>1, ExistsIs DEF NoneDangles
  <2>8. Bounds
    <3>1. \A n \in 1 .. 7 : n \in 0 .. 7
      OBVIOUS
    <3>2. /\ ids(application) \cup named("APPLICATION") \cup doomed.applications \subseteq 0 .. 7
          /\ ids(interview) \cup named("INTERVIEW") \cup doomed.interviews \subseteq 0 .. 7
          /\ ids(feedback) \cup named("FEEDBACK") \cup doomed.feedback \subseteq 0 .. 7
      BY <1>2, <2>1, <3>1, UsedIs DEF UsesOnly
    <3>3. ids(role) \cup {found} \subseteq 0 .. 7
      BY <1>1, <2>1
    <3> QED BY <1>4, <3>2, <3>3 DEF Bounds
  <2> QED BY <1>3, <2>4, <2>5, <2>6, <2>7, <2>8 DEF IInv
<1> QED BY <1>5, <1>6 DEF Init

\* Every state the script and the requests lead to has the inductive invariant.
THEOREM Invariant == Spec => []IInv
<1>1. Init => IInv
  BY InitIs
<1>2. IInv /\ [Next]_vars => IInv'
  BY Step
<1> QED BY <1>1, <1>2, PTL DEF Spec

\* Accounts, contact details and rows are of their types, no application names
\* a role, no round an application and no assessment a round that has gone
\* (the foreign keys and cascades of schema.prisma), and the script is at a
\* statement of main.
THEOREM TypesHold == Spec => []TypeOK
<1>1. IInv => TypeOK
  <2> SUFFICES ASSUME IInv PROVE TypeOK
    OBVIOUS
  <2>1. at \in 0 .. Len(main) + 1
    <3>1. at \in 0 .. 33 + 1
      BY DEF IInv, Places
    <3>2. Len(main) = 33
      BY ScriptIs
    <3> QED BY <3>1, <3>2, Zenon
  <2>2. \A a \in application : a.candidate \in Candidates
    BY DEF IInv, Types, ApplicationRows
  <2>3. /\ account \in [DOMAIN seedRole -> {"RECRUITER", "INTERVIEWER", "CANDIDATE", Null}]
        /\ profile \in [Seeded -> {Null, "seeded", "patched"}]
        /\ run \in {"never", "running", "complete", "failed", "crashed"}
    BY AccountsAre DEF IInv, Types
  <2>4. References
    BY DEF IInv
  <2> QED BY <2>1, <2>2, <2>3, <2>4 DEF References, TypeOK
<1> QED BY <1>1, Invariant, PTL

\* Re-running the script restores the baseline (main, prisma/seed.ts): from
\* whatever earlier runs and requests left, a run nobody commits beside never
\* fails, and when it is complete every account, application, history, round,
\* panel and assessment is the planned one and there is no other.
THEOREM Restores == Spec => []ReseedRestores
<1>1. IInv => ReseedRestores
  BY DEF IInv, Progress, ReseedRestores
<1> QED BY <1>1, Invariant, PTL

\* At every instant an application stands where its last history row leaves it
\* and its audit, its rounds' and their assessments' tells the same, unless a
\* run that may have cleared a seeded candidate's is going or was stopped; and
\* an audit row about nothing was written beside the script
\* (seedCandidateApplications).
THEOREM TraceHolds == Spec => []TraceMatchesRows
<1>1. IInv => TraceMatchesRows
  <2> SUFFICES ASSUME IInv PROVE TraceMatchesRows
    OBVIOUS
  <2>1. \A a \in application : Last(a.history).stage = a.stage /\ Last(a.history).status = a.status
    BY DEF IInv, Histories, Told
  <2>2. \A a \in application : traced(a) \/ (a.candidate \in Seeded /\ run \in {"running", "failed", "crashed"})
    BY DEF IInv, Traces, Unsettled
  <2>3. \A e \in auditLog : exists(e) \/ e.by = "beside"
    BY DEF IInv, NoneDangles
  <2> QED BY <2>1, <2>2, <2>3 DEF TraceMatchesRows
<1> QED BY <1>1, Invariant, PTL

-----------------------------------------------------------------------------
(***************************************************************************)
(* Another candidate's rows.                                               *)
(***************************************************************************)
Survives ==
  /\ ids(theirs) \subseteq ids(application')
  /\ ids(theirRounds) \subseteq ids(interview') /\ ids(theirFeedback) \subseteq ids(feedback')
  /\ \A entry \in auditLog : aboutOthers(entry) => entry \in auditLog'

NothingGoes ==
  /\ ids(application) \subseteq ids(application') /\ ids(interview) \subseteq ids(interview')
  /\ ids(feedback) \subseteq ids(feedback') /\ auditLog \subseteq auditLog'

LEMMA TheirsAreThere ==
  ASSUME NothingGoes
  PROVE  Survives
<1>1. ids(theirs) \subseteq ids(application) /\ ids(theirRounds) \subseteq ids(interview)
      /\ ids(theirFeedback) \subseteq ids(feedback)
  BY DEF theirs, theirRounds, theirFeedback, roundsOf, feedbackOf, ids
<1> QED BY <1>1 DEF NothingGoes, Survives

\* Theirs are none of the rows of a candidate of the script's.
LEMMA TheirsAreNotHis ==
  ASSUME Keys, NEW c \in Seeded
  PROVE  /\ \A id \in ids(theirs) : id \notin applicationsIds(c)
         /\ \A i \in theirRounds : i.id \notin roundsIds(c)
         /\ \A f \in theirFeedback : f.id \notin feedbackIds(c) /\ f.round \notin roundsIds(c)
<1>1. \A a \in theirs : a \in application /\ a.candidate # c
  BY SeedOthers DEF theirs
<1>2. ASSUME NEW id \in ids(theirs) PROVE id \notin applicationsIds(c)
  <2>1. PICK a \in theirs : id = a.id
    BY DEF ids
  <2> QED BY <1>1, <2>1, AnothersIds
<1>3. ASSUME NEW i \in theirRounds PROVE i.id \notin roundsIds(c)
  <2>1. PICK a \in theirs : i \in interview /\ i.app = a.id
    BY DEF theirRounds, roundsOf, ids
  <2>2. i \in roundsOf({a.id})
    BY <2>1 DEF roundsOf
  <2> QED BY <1>1, <2>2, AnothersIds
<1>4. ASSUME NEW f \in theirFeedback PROVE f.id \notin feedbackIds(c) /\ f.round \notin roundsIds(c)
  <2>1. PICK i \in theirRounds : f \in feedback /\ f.round = i.id
    BY DEF theirFeedback, feedbackOf, ids
  <2>2. f.round \notin roundsIds(c)
    BY <1>3, <2>1
  <2>3. f.id \notin feedbackIds(c)
    BY <2>1, <2>2 DEF Keys, Keyed, feedbackIds, feedbackOf, ids
  <2> QED BY <2>2, <2>3
<1> QED BY <1>2, <1>3, <1>4

LEMMA RequestsOnlyAdd ==
  ASSUME Requests
  PROVE  NothingGoes
<1>1. CASE \/ \E u \in DOMAIN account : signup(u)
           \/ \E c \in Seeded : updateCandidateContact(c)
           \/ \E title \in HandTitles : createRole(title)
           \/ \E r \in role, status \in {"OPEN", "CLOSED"} : updateRole(r, status)
           \/ \E r \in role : deleteRole(r)
  <2>1. UNCHANGED <<application, interview, feedback, auditLog>>
    BY <1>1 DEF signup, updateCandidateContact, createRole, updateRole, deleteRole
  <2> QED BY <2>1 DEF NothingGoes
<1>2. CASE \E c \in Candidates, r \in role : createApplication(c, r)
  <2>1. application \subseteq application' /\ UNCHANGED <<interview, feedback, auditLog>>
    BY <1>2 DEF createApplication
  <2> QED BY <2>1 DEF NothingGoes, ids
<1>3. CASE \E a \in application : changeStage(a)
  <2>1. PICK a \in application : changeStage(a)
    BY <1>3
  <2>2. PICK b : b = [a EXCEPT !.stage = Onward[a.stage], !.history
        = Append(@, HistoryRow(Onward[a.stage], "ACTIVE", FALSE))]
    OBVIOUS
  <2>3. HistoryRow(Onward[a.stage], "ACTIVE", FALSE).stage = Onward[a.stage]
    BY DEF HistoryRow
  <2>4. application' = (application \ {a}) \cup {b} /\ UNCHANGED <<interview, feedback>> /\ auditLog \subseteq auditLog'
    BY <2>1, <2>2, <2>3 DEF changeStage
  <2>5. b.id = a.id
    BY <2>2
  <2> QED BY <2>4, <2>5 DEF NothingGoes, ids
<1>4. CASE \E a \in application : createInterview(a)
  <2>1. interview \subseteq interview' /\ auditLog \subseteq auditLog' /\ UNCHANGED <<application, feedback>>
    BY <1>4 DEF createInterview
  <2> QED BY <2>1 DEF NothingGoes, ids
<1>5. CASE \E i \in interview, u \in Interviewers : assignInterviewer(i, u)
  <2>1. PICK i \in interview, u \in Interviewers : assignInterviewer(i, u)
    BY <1>5
  <2>2. PICK j : j = [i EXCEPT !.panel = @ \cup {u}]
    OBVIOUS
  <2>3. interview' = (interview \ {i}) \cup {j} /\ UNCHANGED <<application, feedback>> /\ auditLog \subseteq auditLog'
    BY <2>1, <2>2 DEF assignInterviewer
  <2>4. j.id = i.id
    BY <2>2
  <2> QED BY <2>3, <2>4 DEF NothingGoes, ids
<1>6. CASE \E i \in interview, u \in Interviewers : submitFeedback(i, u)
  <2>1. feedback \subseteq feedback' /\ auditLog \subseteq auditLog' /\ UNCHANGED <<application, interview>>
    BY <1>6 DEF submitFeedback
  <2> QED BY <2>1 DEF NothingGoes, ids
<1> QED BY <1>1, <1>2, <1>3, <1>4, <1>5, <1>6 DEF Requests

\* No step takes anything of another candidate's.
LEMMA OthersStep ==
  ASSUME IInv, [Next]_vars
  PROVE  Survives
<1>1. CASE \/ UpsertUser \/ FindRole \/ CreateRole \/ FindPeople \/ FindCandidate \/ UpsertProfile
           \/ FindApplications \/ FindInterviews \/ FindFeedback \/ FindRoleOf \/ Complete
           \/ Crash \/ Run \/ Idle \/ UNCHANGED vars
  <2>1. UNCHANGED rows
    BY <1>1 DEF UpsertUser, FindRole, CreateRole, FindPeople, FindCandidate, UpsertProfile, FindApplications,
       FindInterviews,
                FindFeedback, FindRoleOf, Complete, Crash, Run, Idle, Keeps, End, rows, vars, database
  <2> QED BY <2>1, TheirsAreThere DEF NothingGoes, rows, ids
<1>2. CASE DeleteAudit
  <2>1. PICK c \in Seeded : run = "running" /\ at = start(c) + 4
    <3>1. run = "running" /\ at \in 1 .. 33 /\ main[at].do = "deleteAudit"
      BY <1>2, Awaited DEF IInv, DeleteAudit
    <3> QED BY <3>1, PlaceOf
  <2>2. /\ doomed.applications \subseteq applicationsIds(c) /\ doomed.interviews \subseteq roundsIds(c)
        /\ doomed.feedback \subseteq feedbackIds(c)
    <3>1. Collecting(c)
      BY <2>1, StartsAre DEF Collecting
    <3> QED BY <3>1 DEF IInv, Places
  <2>3. auditLog' = {entry \in auditLog : ~cleared(entry)} /\ UNCHANGED <<application, interview, feedback>>
    BY <1>2 DEF DeleteAudit
  <2>4. \A entry \in auditLog : aboutOthers(entry) => ~cleared(entry)
    <3>1. /\ \A id \in ids(theirs) : id \notin applicationsIds(c)
          /\ \A id \in ids(theirRounds) : id \notin roundsIds(c)
          /\ \A id \in ids(theirFeedback) : id \notin feedbackIds(c)
      BY TheirsAreNotHis DEF IInv, ids
    <3> QED BY <2>2, <3>1 DEF aboutOthers, cleared
  <2>5. /\ ids(theirs) \subseteq ids(application) /\ ids(theirRounds) \subseteq ids(interview)
        /\ ids(theirFeedback) \subseteq ids(feedback)
    BY DEF theirs, theirRounds, theirFeedback, roundsOf, feedbackOf, ids
  <2> QED BY <2>3, <2>4, <2>5 DEF Survives
<1>3. CASE DeleteApplications
  <2>1. PICK c \in Seeded : statement.of = c
    <3>1. run = "running" /\ at \in 1 .. 33 /\ main[at].do = "deleteApplications" /\ statement = main[at]
      BY <1>3, Awaited DEF IInv, DeleteApplications
    <3> QED BY <3>1, PlaceOf
  <2>2. /\ application' = {a \in application : a.id \notin applicationsIds(c)}
        /\ interview' = {i \in interview : i.id \notin roundsIds(c)}
        /\ feedback' = {f \in feedback : f.round \notin roundsIds(c)} /\ UNCHANGED auditLog
    BY <1>3, <2>1 DEF DeleteApplications, Keeps, reset, applicationsIds, roundsIds
  <2>3. ids(theirs) \subseteq ids(application')
    BY <2>2, TheirsAreNotHis DEF IInv, ids, theirs
  <2>4. ids(theirRounds) \subseteq ids(interview')
    BY <2>2, TheirsAreNotHis DEF IInv, ids, theirRounds, roundsOf
  <2>5. ids(theirFeedback) \subseteq ids(feedback')
    BY <2>2, TheirsAreNotHis DEF IInv, ids, theirFeedback, feedbackOf
  <2> QED BY <2>2, <2>3, <2>4, <2>5 DEF Survives
<1>4. CASE Transaction
  <2>1. CASE mayInsert(statement.of, found)
    <3>1. application \subseteq application' /\ interview \subseteq interview' /\ feedback \subseteq feedback'
          /\ auditLog \subseteq auditLog'
      BY <1>4, <2>1 DEF Transaction, CreateApplication
    <3> QED BY <3>1, TheirsAreThere DEF NothingGoes, ids
  <2>2. CASE ~mayInsert(statement.of, found)
    <3>1. UNCHANGED rows
      BY <1>4, <2>2 DEF Transaction, End, database, rows
    <3> QED BY <3>1, TheirsAreThere DEF NothingGoes, rows, ids
  <2> QED BY <2>1, <2>2
<1>5. CASE Request /\ Requests
  BY <1>5, RequestsOnlyAdd, TheirsAreThere
<1> QED BY <1>1, <1>2, <1>3, <1>4, <1>5 DEF Next, Seeding

\* Another candidate's applications, rounds and assessments, and every audit
\* entry there is about them, survive every statement of every run and every
\* request: the script collects, clears and deletes by the ids of the candidate
\* whose turn it is (FR-10.4, seedCandidateApplications).
THEOREM OthersAreLeft == Spec => OthersSurvive
<1>1. IInv /\ [Next]_vars => [Survives]_vars
  BY OthersStep
<1>2. [Survives]_vars =>
        [/\ ids(theirs) \subseteq ids(application')
         /\ ids(theirRounds) \subseteq ids(interview') /\ ids(theirFeedback) \subseteq ids(feedback')
         /\ \A entry \in auditLog : aboutOthers(entry) => entry \in auditLog']_vars
  BY DEF Survives
<1> QED BY <1>1, <1>2, Invariant, PTL DEF Spec, OthersSurvive

================================================================================
