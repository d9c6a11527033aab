---------------------------- MODULE DashboardProofs ----------------------------
(***************************************************************************)
(* Theorems about Dashboard, for every set of roles and every finite set   *)
(* of applications: whatever commits between the statements of the two     *)
(* aggregates, the summary drops nobody and the board forgets nobody.      *)
(***************************************************************************)
EXTENDS Dashboard, FiniteSetTheorems, TLAPS

USE RoleOfAssumption, DashboardIds, DashboardNull

RowsTypeOK == application \in [Apps -> ApplicationRow \cup {Null}]

closed == closedWith("HIRED") \cup closedWith("REJECTED")

-----------------------------------------------------------------------------
(***************************************************************************)
(* Sets of applications and their sizes.                                   *)
(***************************************************************************)
LEMMA SetsAreFinite ==
  ASSUME NEW S \in SUBSET Apps
  PROVE  IsFiniteSet(S) /\ Cardinality(S) \in Nat /\ Cardinality(S) <= Cardinality(Apps)
         /\ Cardinality(Apps) \in Nat
BY FS_Subset, FS_CardinalityType

LEMMA SubsetIsSmaller ==
  ASSUME NEW S \in SUBSET Apps, NEW T \in SUBSET S
  PROVE  Cardinality(T) <= Cardinality(S) /\ Cardinality(T) \in Nat /\ Cardinality(S) \in Nat
BY SetsAreFinite, FS_Subset

\* A set that three others cover has at most their members.
LEMMA CoverOfThree ==
  ASSUME NEW E \in SUBSET Apps, NEW A \in SUBSET Apps, NEW H \in SUBSET Apps, NEW R \in SUBSET Apps,
         E \subseteq A \cup H \cup R
  PROVE  Cardinality(E) <= Cardinality(A) + Cardinality(H) + Cardinality(R)
<1>1. ASSUME NEW S \in SUBSET Apps, NEW T \in SUBSET Apps
      PROVE  Cardinality(S \cup T) <= Cardinality(S) + Cardinality(T)
  <2>1. /\ IsFiniteSet(S) /\ IsFiniteSet(T) /\ Cardinality(S) \in Nat /\ Cardinality(T) \in Nat
        /\ Cardinality(S \cap T) \in Nat
    <3>1. S \cap T \in SUBSET Apps
      OBVIOUS
    <3> QED BY <3>1, SetsAreFinite
  <2>2. Cardinality(S \cup T) = Cardinality(S) + Cardinality(T) - Cardinality(S \cap T)
    BY <2>1, FS_Union
  <2> QED BY <2>1, <2>2
<1>2. /\ (A \cup H) \in SUBSET Apps /\ (A \cup H) \cup R \in SUBSET Apps
      /\ E \in SUBSET ((A \cup H) \cup R)
  OBVIOUS
<1>3. Cardinality(E) <= Cardinality((A \cup H) \cup R)
  BY <1>2, SubsetIsSmaller
<1>4. /\ Cardinality((A \cup H) \cup R) <= Cardinality(A \cup H) + Cardinality(R)
      /\ Cardinality(A \cup H) <= Cardinality(A) + Cardinality(H)
  BY <1>1, <1>2
<1>5. /\ Cardinality(E) \in Nat /\ Cardinality((A \cup H) \cup R) \in Nat /\ Cardinality(A \cup H) \in Nat
      /\ Cardinality(A) \in Nat /\ Cardinality(H) \in Nat /\ Cardinality(R) \in Nat
  BY <1>2, SetsAreFinite
<1> QED BY <1>3, <1>4, <1>5

-----------------------------------------------------------------------------
(***************************************************************************)
(* What commits while a reader reads.                                      *)
(***************************************************************************)

\* An application that is there stays, and a closed one does not change.
LEMMA LifeStep ==
  ASSUME RowsTypeOK, Next
  PROVE  /\ RowsTypeOK'
         /\ \A a \in Apps :
              /\ application[a] # Null => application'[a] # Null
              /\ application[a] # Null /\ ~Live(a) => application'[a] = application[a]
<1> USE DEF RowsTypeOK
<1>1. ASSUME NEW a \in Apps, Enter(a)
      PROVE  /\ RowsTypeOK'
             /\ application[a] = Null /\ \A b \in Apps \ {a} : application'[b] = application[b]
  BY <1>1 DEF Enter, ApplicationRow, ApplicationStatus, PipelineStage
<1>2. ASSUME NEW a \in Apps, NEW to \in PipelineStage, NEW who \in Actors, NEW override \in Actors \cup {Null}, Move(a, to, who, override)
      PROVE  /\ RowsTypeOK' /\ application'[a] # Null
             /\ Live(a) /\ \A b \in Apps \ {a} : application'[b] = application[b]
  <2>1. application[a] \in ApplicationRow
    BY <1>2 DEF Move, Live
  <2>2. [application[a] EXCEPT !.currentStage = to] \in ApplicationRow
    BY <2>1 DEF ApplicationRow
  <2> QED BY <1>2, <2>2 DEF Move
<1>3. ASSUME NEW a \in Apps, NEW at \in PipelineStage, NEW who \in Actors, NEW status \in {"HIRED", "REJECTED"}, Close(a, status, at, who)
      PROVE  /\ RowsTypeOK' /\ application'[a] # Null
             /\ Live(a) /\ \A b \in Apps \ {a} : application'[b] = application[b]
  <2>1. application[a] \in ApplicationRow
    BY <1>3 DEF Close, Live
  <2>2. [application[a] EXCEPT !.status = status] \in ApplicationRow
    BY <2>1 DEF ApplicationRow, ApplicationStatus
  <2> QED BY <1>3, <2>2 DEF Close
<1>4. CASE \E a \in Apps : Enter(a)
  <2>1. PICK a \in Apps : Enter(a)
    BY <1>4
  <2>2. application'[a] # Null
    BY <2>1 DEF Enter, ApplicationRow, ApplicationStatus, PipelineStage
  <2> QED BY <1>1, <2>1, <2>2 DEF Live
<1>5. CASE \E a \in Apps, to \in PipelineStage, who \in Actors, override \in Actors \cup {Null} : Move(a, to, who, override)
  <2>1. PICK a \in Apps, to \in PipelineStage, who \in Actors, override \in Actors \cup {Null} : Move(a, to, who, override)
    BY <1>5
  <2> QED BY <1>2, <2>1
<1>6. CASE \E a \in Apps, at \in PipelineStage, who \in Actors, status \in {"HIRED", "REJECTED"} : Close(a, status, at, who)
  <2>1. PICK a \in Apps, at \in PipelineStage, who \in Actors, status \in {"HIRED", "REJECTED"} : Close(a, status, at, who)
    BY <1>6
  <2> QED BY <1>3, <2>1
<1> QED BY <1>4, <1>5, <1>6 DEF Next, Advance, Override

\* What every step keeps of the world the readers look at.
WorldGoesOn ==
  /\ RowsTypeOK'
  /\ \A a \in Apps :
       /\ application[a] # Null => application'[a] # Null
       /\ application[a] # Null /\ ~Live(a) => application'[a] = application[a]

LEMMA WorldStep ==
  ASSUME RowsTypeOK, [DashboardNext]_dashboardVars
  PROVE  WorldGoesOn
<1>1. CASE UNCHANGED vars
  BY <1>1 DEF vars, RowsTypeOK, WorldGoesOn
<1>2. CASE Next
  BY <1>2, LifeStep DEF WorldGoesOn
<1> QED BY <1>1, <1>2 DEF DashboardNext, Write, DeleteRole, SetRole, ChangeApplication, BeginSummary,
     getSummary, Count, BeginBoard, ReadRoles, aggregatePipeline, dashboardVars

\* The sets the readers count, from one step to the next.
LEMMA SetsStep ==
  ASSUME RowsTypeOK, WorldGoesOn
  PROVE  /\ entered \subseteq entered' /\ entered \in SUBSET Apps
         /\ active \subseteq entered /\ (entered \cap active') \subseteq active
         /\ closedWith("HIRED") \subseteq closedWith("HIRED")'
         /\ closedWith("REJECTED") \subseteq closedWith("REJECTED")'
         /\ entered \ active = closed
BY DEF RowsTypeOK, WorldGoesOn, entered, active, closedWith, closed, Live, ApplicationRow, ApplicationStatus

-----------------------------------------------------------------------------
(***************************************************************************)
(* The summary.                                                            *)
(***************************************************************************)

\* A number is the size of a set that was counted.
Counted(number, S) == counts[number] = Cardinality(S)

\* What is known between the counts: everybody in the total that was counted is
\* still there, and whoever was not ACTIVE when those were counted is closed
\* for good, as the two counts to come will find.
CountsSoFar ==
  /\ counts \in [Numbers -> Nat]
  /\ counting = "active" =>
       \E E \in SUBSET entered : Counted("totalApplicants", E)
  /\ counting \in {"offers", "hired"} =>
       \E E, A \in SUBSET Apps :
         /\ Counted("totalApplicants", E) /\ Counted("activeApplicants", A)
         /\ E \subseteq A \cup closed
  /\ counting = "rejected" =>
       \E E, A, H \in SUBSET Apps :
         /\ Counted("totalApplicants", E) /\ Counted("activeApplicants", A) /\ Counted("hired", H)
         /\ E \subseteq A \cup H \cup closedWith("REJECTED")
  /\ NobodyDropped

LEMMA CountsStay ==
  ASSUME RowsTypeOK, CountsSoFar, WorldGoesOn, UNCHANGED summary
  PROVE  CountsSoFar'
<1>1. counts' = counts /\ counting' = counting
  BY DEF summary
<1>2. entered \subseteq entered' /\ closed \subseteq closed' /\ closedWith("REJECTED") \subseteq closedWith("REJECTED")'
  BY SetsStep DEF closed
<1>3. \A n, S : Counted(n, S)' <=> Counted(n, S)
  BY <1>1 DEF Counted
<1>4. NobodyDropped'
  BY <1>1 DEF CountsSoFar, NobodyDropped
<1>5. counting = "active" => \E E \in SUBSET entered' : Counted("totalApplicants", E)'
  BY <1>2, <1>3 DEF CountsSoFar
<1>6. counting \in {"offers", "hired"} =>
        \E E, A \in SUBSET Apps :
          /\ Counted("totalApplicants", E)' /\ Counted("activeApplicants", A)'
          /\ E \subseteq A \cup closed'
  <2> SUFFICES ASSUME counting \in {"offers", "hired"}
               PROVE  \E E, A \in SUBSET Apps :
                        /\ Counted("totalApplicants", E)' /\ Counted("activeApplicants", A)'
                        /\ E \subseteq A \cup closed'
    OBVIOUS
  <2>1. PICK E, A \in SUBSET Apps :
          /\ Counted("totalApplicants", E) /\ Counted("activeApplicants", A)
          /\ E \subseteq A \cup closed
    BY DEF CountsSoFar
  <2> WITNESS E \in SUBSET Apps, A \in SUBSET Apps
  <2> QED BY <1>2, <1>3, <2>1
<1>7. counting = "rejected" =>
        \E E, A, H \in SUBSET Apps :
          /\ Counted("totalApplicants", E)' /\ Counted("activeApplicants", A)' /\ Counted("hired", H)'
          /\ E \subseteq A \cup H \cup closedWith("REJECTED")'
  <2> SUFFICES ASSUME counting = "rejected"
               PROVE  \E E, A, H \in SUBSET Apps :
                        /\ Counted("totalApplicants", E)' /\ Counted("activeApplicants", A)' /\ Counted("hired", H)'
                        /\ E \subseteq A \cup H \cup closedWith("REJECTED")'
    OBVIOUS
  <2>1. PICK E, A, H \in SUBSET Apps :
          /\ Counted("totalApplicants", E) /\ Counted("activeApplicants", A) /\ Counted("hired", H)
          /\ E \subseteq A \cup H \cup closedWith("REJECTED")
    BY DEF CountsSoFar
  <2> WITNESS E \in SUBSET Apps, A \in SUBSET Apps, H \in SUBSET Apps
  <2> QED BY <1>2, <1>3, <2>1
<1> QED BY <1>1, <1>4, <1>5, <1>6, <1>7 DEF CountsSoFar

\* A count: its number is the size of its set, the others stay.
LEMMA CountStep ==
  ASSUME CountsSoFar, NEW statement, NEW number \in Numbers, NEW S \in SUBSET Apps, NEW next,
         Count(statement, number, S, next)
  PROVE  /\ counting = statement /\ counting' = next /\ counts' \in [Numbers -> Nat]
         /\ Counted(number, S)'
         /\ \A n \in Numbers \ {number} : \A T : Counted(n, T)' <=> Counted(n, T)
         /\ UNCHANGED application
<1>1. Cardinality(S) \in Nat
  BY SetsAreFinite
<1> QED BY <1>1 DEF Count, CountsSoFar, Counted, vars

LEMMA SummaryStep ==
  ASSUME RowsTypeOK, CountsSoFar, [DashboardNext]_dashboardVars
  PROVE  CountsSoFar'
<1>0. /\ WorldGoesOn
      /\ entered \in SUBSET Apps /\ active \in SUBSET Apps
      /\ closedWith("HIRED") \in SUBSET Apps /\ closedWith("REJECTED") \in SUBSET Apps
      /\ {a \in active : application[a].currentStage = "OFFER"} \in SUBSET Apps
      /\ entered \ active = closed
      /\ {"totalApplicants", "activeApplicants", "offers", "hired", "rejected"} \subseteq Numbers
  BY WorldStep, SetsStep DEF entered, active, closedWith, Numbers
<1>1. CASE UNCHANGED summary
  BY <1>0, <1>1, CountsStay
<1>2. CASE BeginSummary
  BY <1>2 DEF BeginSummary, CountsSoFar, NoCounts, NobodyDropped
<1>3. CASE Count("total", "totalApplicants", entered, "active")
  <2>1. PICK E \in SUBSET Apps : E = entered
    BY <1>0
  <2>2. Count("total", "totalApplicants", E, "active")
    BY <1>3, <2>1
  <2>3. /\ counting' = "active" /\ counts' \in [Numbers -> Nat] /\ Counted("totalApplicants", E)'
        /\ UNCHANGED application
    BY <1>0, <2>2, CountStep
  <2>4. E \in SUBSET entered'
    BY <2>1, <2>3 DEF entered
  <2> QED BY <2>3, <2>4 DEF CountsSoFar, NobodyDropped
<1>4. CASE Count("active", "activeApplicants", active, "offers")
  <2>1. PICK A \in SUBSET Apps : A = active
    BY <1>0
  <2>2. Count("active", "activeApplicants", A, "offers")
    BY <1>4, <2>1
  <2>3. /\ counting = "active" /\ counting' = "offers" /\ counts' \in [Numbers -> Nat]
        /\ Counted("activeApplicants", A)'
        /\ \A T : Counted("totalApplicants", T)' <=> Counted("totalApplicants", T)
        /\ UNCHANGED application
    BY <1>0, <2>2, CountStep
  <2>4. PICK E \in SUBSET entered : Counted("totalApplicants", E)
    BY <2>3 DEF CountsSoFar
  <2>5. closed' = closed
    BY <2>3 DEF closed, closedWith, entered
  <2>6. E \in SUBSET Apps /\ E \subseteq A \cup closed'
    BY <1>0, <2>1, <2>4, <2>5
  <2>7. \E F, B \in SUBSET Apps :
          /\ Counted("totalApplicants", F)' /\ Counted("activeApplicants", B)'
          /\ F \subseteq B \cup closed'
    BY <2>3, <2>4, <2>6
  <2> QED BY <2>3, <2>7 DEF CountsSoFar, NobodyDropped
<1>5. CASE Count("offers", "offers", {a \in active : application[a].currentStage = "OFFER"}, "hired")
  <2>1. PICK O \in SUBSET Apps : O = {a \in active : application[a].currentStage = "OFFER"}
    BY <1>0
  <2>2. Count("offers", "offers", O, "hired")
    BY <1>5, <2>1
  <2>3. /\ counting = "offers" /\ counting' = "hired" /\ counts' \in [Numbers -> Nat]
        /\ \A T : Counted("totalApplicants", T)' <=> Counted("totalApplicants", T)
        /\ \A T : Counted("activeApplicants", T)' <=> Counted("activeApplicants", T)
        /\ UNCHANGED application
    BY <1>0, <2>2, CountStep
  <2>4. closed' = closed
    BY <2>3 DEF closed, closedWith, entered
  <2>5. PICK E, A \in SUBSET Apps :
          /\ Counted("totalApplicants", E) /\ Counted("activeApplicants", A)
          /\ E \subseteq A \cup closed
    BY <2>3 DEF CountsSoFar
  <2>6. \E F, B \in SUBSET Apps :
          /\ Counted("totalApplicants", F)' /\ Counted("activeApplicants", B)'
          /\ F \subseteq B \cup closed'
    BY <2>3, <2>4, <2>5
  <2> QED BY <2>3, <2>6 DEF CountsSoFar, NobodyDropped
<1>6. CASE Count("hired", "hired", closedWith("HIRED"), "rejected")
  <2>1. PICK H \in SUBSET Apps : H = closedWith("HIRED")
    BY <1>0
  <2>2. Count("hired", "hired", H, "rejected")
    BY <1>6, <2>1
  <2>3. /\ counting = "hired" /\ counting' = "rejected" /\ counts' \in [Numbers -> Nat]
        /\ Counted("hired", H)'
        /\ \A T : Counted("totalApplicants", T)' <=> Counted("totalApplicants", T)
        /\ \A T : Counted("activeApplicants", T)' <=> Counted("activeApplicants", T)
        /\ UNCHANGED application
    BY <1>0, <2>2, CountStep
  <2>4. closedWith("REJECTED")' = closedWith("REJECTED")
    BY <2>3 DEF closedWith, entered
  <2>5. PICK E, A \in SUBSET Apps :
          /\ Counted("totalApplicants", E) /\ Counted("activeApplicants", A)
          /\ E \subseteq A \cup closed
    BY <2>3 DEF CountsSoFar
  <2>6. E \subseteq A \cup H \cup closedWith("REJECTED")'
    BY <2>1, <2>4, <2>5 DEF closed
  <2>7. \E F, B, G \in SUBSET Apps :
          /\ Counted("totalApplicants", F)' /\ Counted("activeApplicants", B)' /\ Counted("hired", G)'
          /\ F \subseteq B \cup G \cup closedWith("REJECTED")'
    BY <2>3, <2>5, <2>6
  <2> QED BY <2>3, <2>7 DEF CountsSoFar, NobodyDropped
<1>7. CASE Count("rejected", "rejected", closedWith("REJECTED"), "done")
  <2>1. PICK R \in SUBSET Apps : R = closedWith("REJECTED")
    BY <1>0
  <2>2. Count("rejected", "rejected", R, "done")
    BY <1>7, <2>1
  <2>3. /\ counting = "rejected" /\ counting' = "done" /\ counts' \in [Numbers -> Nat]
        /\ Counted("rejected", R)'
        /\ \A T : Counted("totalApplicants", T)' <=> Counted("totalApplicants", T)
        /\ \A T : Counted("activeApplicants", T)' <=> Counted("activeApplicants", T)
        /\ \A T : Counted("hired", T)' <=> Counted("hired", T)
    BY <1>0, <2>2, CountStep
  <2>4. PICK E, A, H \in SUBSET Apps :
          /\ Counted("totalApplicants", E) /\ Counted("activeApplicants", A) /\ Counted("hired", H)
          /\ E \subseteq A \cup H \cup R
    BY <2>1, <2>3 DEF CountsSoFar
  <2>5. Cardinality(E) <= Cardinality(A) + Cardinality(H) + Cardinality(R)
    BY <2>4, CoverOfThree
  <2>6. /\ Counted("totalApplicants", E)' /\ Counted("activeApplicants", A)' /\ Counted("hired", H)'
    BY <2>3, <2>4
  <2>7. NobodyDropped'
    BY <2>3, <2>5, <2>6 DEF NobodyDropped, Counted
  <2> QED BY <2>3, <2>7 DEF CountsSoFar
<1> QED BY <1>1, <1>2, <1>3, <1>4, <1>5, <1>6, <1>7 DEF DashboardNext, Write, DeleteRole, SetRole,
     ChangeApplication, getSummary, BeginBoard, ReadRoles, aggregatePipeline, dashboardVars

\* The summary counts a candidate twice at worst, never not at all, whatever
\* commits between its counts: nobody leaves an outcome, and the ACTIVE ones
\* are counted ahead of the outcomes (getSummary, pipeline.service.ts).
THEOREM NobodyDroppedTheorem == DashboardSpec => []NobodyDropped
<1>1. DashboardInit => RowsTypeOK /\ CountsSoFar
  BY DEF DashboardInit, Init, RowsTypeOK, CountsSoFar, NoCounts, Numbers, NobodyDropped
<1>2. RowsTypeOK /\ CountsSoFar /\ [DashboardNext]_dashboardVars => RowsTypeOK' /\ CountsSoFar'
  BY WorldStep, SummaryStep DEF WorldGoesOn
<1>3. CountsSoFar => NobodyDropped
  BY DEF CountsSoFar
<1> QED BY <1>1, <1>2, <1>3, PTL DEF DashboardSpec

-----------------------------------------------------------------------------
(***************************************************************************)
(* The board.                                                              *)
(***************************************************************************)

\* The foreign key: an application's role is there.
RolesStand ==
  /\ role \in [Roles -> {"NONE", "OPEN", "CLOSED", "DELETED"}]
  /\ \A a \in entered : exists(RoleOf[a])

waited(x) == {a \in standing \cap active : RoleOf[a] = x}
possible(x) == {a \in entered \ settled : RoleOf[a] = x}

\* What the board's answers hold: the roles of whoever stood when it was asked
\* for, and each group's applications between those that still stand and those
\* that might.
BoardSoFar ==
  /\ standing \subseteq entered /\ settled \subseteq entered \ active
  /\ listed \subseteq Roles /\ cells \in [Roles -> SUBSET Apps] /\ awaiting \subseteq {"roles", "cells"}
  /\ "roles" \notin awaiting => \A a \in standing : RoleOf[a] \in listed
  /\ "cells" \notin awaiting => \A x \in Roles : waited(x) \subseteq cells[x] /\ cells[x] \subseteq possible(x)

LEMMA RolesStep ==
  ASSUME RowsTypeOK, RolesStand, [DashboardNext]_dashboardVars
  PROVE  RolesStand'
<1>1. CASE UNCHANGED <<application, role>>
  BY <1>1 DEF RolesStand, entered, exists
<1>2. ASSUME NEW x \in Roles, NEW status \in {"OPEN", "CLOSED"}, SetRole(x, status)
      PROVE  RolesStand'
  BY <1>2 DEF SetRole, RolesStand, entered, exists, vars
<1>3. ASSUME NEW x \in Roles, DeleteRole(x)
      PROVE  RolesStand'
  BY <1>3 DEF DeleteRole, deletable, RolesStand, entered, exists, vars
<1>4. CASE ChangeApplication
  BY <1>4 DEF ChangeApplication, RolesStand, entered, exists
<1> QED BY <1>1, <1>2, <1>3, <1>4 DEF DashboardNext, Write, getSummary, BeginSummary, Count, BeginBoard,
     ReadRoles, aggregatePipeline, dashboardVars, vars

LEMMA BoardStep ==
  ASSUME RowsTypeOK, RolesStand, BoardSoFar, [DashboardNext]_dashboardVars
  PROVE  BoardSoFar'
<1>0. /\ WorldGoesOn
      /\ entered \in SUBSET Apps /\ entered \subseteq entered'
      /\ active \subseteq entered /\ (entered \cap active') \subseteq active
  BY WorldStep, SetsStep
<1>1. CASE UNCHANGED board
  <2>1. UNCHANGED <<listed, cells, awaiting, standing, settled>>
    BY <1>1 DEF board
  <2>2. standing' \subseteq entered' /\ settled' \subseteq entered' \ active'
    BY <1>0, <2>1 DEF BoardSoFar
  <2>3. \A x : waited(x)' \subseteq waited(x) /\ possible(x) \subseteq possible(x)'
    BY <1>0, <2>1 DEF waited, possible, BoardSoFar
  <2> QED BY <2>1, <2>2, <2>3 DEF BoardSoFar
<1>2. CASE BeginBoard
  BY <1>0, <1>2 DEF BeginBoard, BoardSoFar, NoCells, entered, active, Live, vars
<1>3. CASE ReadRoles
  <2>1. /\ listed' = {x \in Roles : exists(x)} /\ awaiting' = awaiting \ {"roles"}
        /\ UNCHANGED <<cells, standing, settled, application, role>>
    BY <1>3 DEF ReadRoles, boardRoles, vars
  <2>2. UNCHANGED <<entered, active>> /\ \A x : waited(x)' = waited(x) /\ possible(x)' = possible(x)
    BY <2>1 DEF entered, active, Live, waited, possible
  <2>3. \A a \in standing' : RoleOf[a] \in listed'
    BY <1>0, <2>1 DEF BoardSoFar, RolesStand
  <2> QED BY <2>1, <2>2, <2>3 DEF BoardSoFar
<1>4. CASE aggregatePipeline
  <2>1. /\ cells' = [x \in Roles |-> group(x)] /\ awaiting' = awaiting \ {"cells"}
        /\ UNCHANGED <<listed, standing, settled, application>>
    BY <1>4 DEF aggregatePipeline, vars
  <2>2. UNCHANGED <<entered, active>> /\ \A x : waited(x)' = waited(x) /\ possible(x)' = possible(x)
    BY <2>1 DEF entered, active, Live, waited, possible
  <2>3. \A x \in Roles : waited(x) \subseteq group(x) /\ group(x) \subseteq possible(x) /\ group(x) \in SUBSET Apps
    BY <1>0 DEF waited, possible, group, BoardSoFar
  <2> QED BY <2>1, <2>2, <2>3 DEF BoardSoFar
<1> QED BY <1>1, <1>2, <1>3, <1>4 DEF DashboardNext, Write, DeleteRole, SetRole, ChangeApplication,
     getSummary, BeginSummary, Count, dashboardVars

LEMMA BoardIsEnough ==
  ASSUME RowsTypeOK, BoardSoFar
  PROVE  BoardForgetsNobody
<1> SUFFICES ASSUME awaiting = {}, NEW x \in Roles
             PROVE  /\ Cardinality(waited(x)) <= totalActive(x)
                    /\ totalActive(x) <= Cardinality(possible(x))
  BY DEF BoardForgetsNobody, waited, possible
<1>1. /\ waited(x) \subseteq cells[x] /\ cells[x] \subseteq possible(x) /\ possible(x) \in SUBSET Apps
      /\ \A a \in standing : RoleOf[a] \in listed
  BY DEF BoardSoFar, possible, entered
<1>2. CASE x \in listed
  <2>1. cells[x] \in SUBSET Apps /\ waited(x) \in SUBSET cells[x] /\ cells[x] \in SUBSET possible(x)
    BY <1>1 DEF BoardSoFar
  <2> QED BY <1>1, <1>2, <2>1, SubsetIsSmaller DEF totalActive
<1>3. CASE x \notin listed
  <2>1. waited(x) = {}
    BY <1>1, <1>3 DEF waited
  <2> QED BY <1>1, <1>3, <2>1, SetsAreFinite, FS_EmptySet DEF totalActive
<1> QED BY <1>2, <1>3

\* Whoever was ACTIVE when the board was asked for, and is still, is on it, and
\* nobody who was closed by then, although the roles and the groups are read by
\* two statements in either order (getPipeline): the role of an application is
\* there for as long as the application is, so it is on whichever list is read.
THEOREM BoardTheorem == DashboardSpec => []BoardForgetsNobody
<1>1. DashboardInit => RowsTypeOK /\ RolesStand /\ BoardSoFar
  BY DEF DashboardInit, Init, RowsTypeOK, RolesStand, BoardSoFar, NoCells, entered, active, waited, possible, exists
<1>2. RowsTypeOK /\ RolesStand /\ BoardSoFar /\ [DashboardNext]_dashboardVars
        => RowsTypeOK' /\ RolesStand' /\ BoardSoFar'
  BY WorldStep, RolesStep, BoardStep DEF WorldGoesOn
<1>3. RowsTypeOK /\ BoardSoFar => BoardForgetsNobody
  BY BoardIsEnough
<1> QED BY <1>1, <1>2, <1>3, PTL DEF DashboardSpec

-----------------------------------------------------------------------------
(***************************************************************************)
(* Types.                                                                  *)
(***************************************************************************)
LEMMA TypeStep ==
  ASSUME DashboardTypeOK, [DashboardNext]_dashboardVars
  PROVE  DashboardTypeOK'
<1>0. RowsTypeOK' /\ RowsTypeOK /\ Cardinality(Apps) \in Nat
  BY WorldStep, SetsAreFinite DEF DashboardTypeOK, RowsTypeOK, WorldGoesOn
<1>1. CASE UNCHANGED <<role, summary, board>>
  BY <1>0, <1>1 DEF DashboardTypeOK, RowsTypeOK, summary, board
<1>2. ASSUME NEW x \in Roles, NEW status \in {"OPEN", "CLOSED"}, SetRole(x, status)
      PROVE  DashboardTypeOK'
  BY <1>0, <1>2 DEF SetRole, DashboardTypeOK, RowsTypeOK, summary, board
<1>3. ASSUME NEW x \in Roles, DeleteRole(x)
      PROVE  DashboardTypeOK'
  BY <1>0, <1>3 DEF DeleteRole, DashboardTypeOK, RowsTypeOK, summary, board
<1>4. CASE BeginSummary
  BY <1>0, <1>4 DEF BeginSummary, NoCounts, DashboardTypeOK, RowsTypeOK, board
<1>5. ASSUME NEW statement, NEW number \in Numbers, NEW S \in SUBSET Apps,
             NEW next \in {"active", "offers", "hired", "rejected", "done"}, Count(statement, number, S, next)
      PROVE  DashboardTypeOK'
  <2>1. Cardinality(S) \in 0 .. Cardinality(Apps)
    BY SetsAreFinite
  <2>2. counts' \in [Numbers -> 0 .. Cardinality(Apps)]
    BY <1>5, <2>1 DEF Count, DashboardTypeOK
  <2> QED BY <1>0, <1>5, <2>2 DEF Count, DashboardTypeOK, RowsTypeOK, board
<1>6. CASE getSummary
  <2>1. /\ entered \in SUBSET Apps /\ active \in SUBSET Apps
        /\ closedWith("HIRED") \in SUBSET Apps /\ closedWith("REJECTED") \in SUBSET Apps
        /\ {a \in active : application[a].currentStage = "OFFER"} \in SUBSET Apps
        /\ {"totalApplicants", "activeApplicants", "offers", "hired", "rejected"} \subseteq Numbers
    BY DEF entered, active, closedWith, Numbers
  <2> QED BY <1>5, <1>6, <2>1 DEF getSummary
<1>7. CASE BeginBoard
  BY <1>0, <1>7 DEF BeginBoard, NoCells, DashboardTypeOK, RowsTypeOK, summary, entered, active
<1>8. CASE ReadRoles
  BY <1>0, <1>8 DEF ReadRoles, boardRoles, DashboardTypeOK, RowsTypeOK, summary
<1>9. CASE aggregatePipeline
  <2>1. \A x \in Roles : group(x) \in SUBSET Apps /\ \A a \in group(x) : RoleOf[a] = x
    BY DEF group, active
  <2> QED BY <1>0, <1>9, <2>1 DEF aggregatePipeline, DashboardTypeOK, RowsTypeOK, summary
<1> QED BY <1>1, <1>2, <1>3, <1>4, <1>6, <1>7, <1>8, <1>9 DEF DashboardNext, Write, ChangeApplication, dashboardVars

\* The types: a number counts at most every application, and a group of the
\* board holds applications of its own role (getSummary, aggregatePipeline).
THEOREM DashboardTypeTheorem == DashboardSpec => []DashboardTypeOK
<1>1. DashboardInit => DashboardTypeOK
  <2>1. Cardinality(Apps) \in Nat
    BY SetsAreFinite
  <2> QED BY <2>1 DEF DashboardInit, Init, DashboardTypeOK, NoCounts, NoCells
<1> QED BY <1>1, TypeStep, PTL DEF DashboardSpec
=============================================================================
