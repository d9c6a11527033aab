------------------------------ MODULE Dashboard ------------------------------
(***************************************************************************)
(* The recruiter's two aggregates (pipeline.service.ts): getSummary, a     *)
(* series of counts, and getPipeline, the board.  They only read, and what *)
(* they read is committed, so they run beside the abstract life of the     *)
(* applications that the statement-level modules implement, and beside the *)
(* requisitions, in committed steps.                                       *)
(*                                                                         *)
(* A transaction at READ COMMITTED takes a snapshot per statement, so the  *)
(* world may move between two counts, and between the board's two queries. *)
(* Ages, titles, the filters and the two counts of other tables (openRoles *)
(* and interviews) are left out.                                           *)
(***************************************************************************)
EXTENDS Lifecycle, FiniteSets

CONSTANTS
  Roles,   \* requisition ids
  RoleOf   \* the role an application names, for good

ASSUME RoleOfAssumption == RoleOf \in [Apps -> Roles]
ASSUME DashboardIds == IsFiniteSet(Apps)  \* an id is an Int column's

ApplicationRow == [status : ApplicationStatus, currentStage : PipelineStage]

ASSUME DashboardNull == Null \notin ApplicationRow

VARIABLES
  role,     \* a requisition's status; "NONE" before it is created
  counts,   \* what a getSummary has counted
  counting, \* the statement it awaits next
  listed,   \* the roles a getPipeline has read
  cells,    \* its aggregate: the ACTIVE applications of each group
  awaiting, \* its queries not yet answered
  standing, \* the applications that were ACTIVE when it began
  settled,  \* those that were not any more
  reader    \* which of the two reads this behaviour has

summary == <<counts, counting>>
board == <<listed, cells, awaiting, standing, settled>>
dashboardVars == <<vars, role, summary, board, reader>>

Numbers == {"totalApplicants", "activeApplicants", "offers", "hired", "rejected"}
NoCounts == [n \in Numbers |-> 0]
NoCells == [x \in Roles |-> {}]

DashboardInit ==
  /\ Init
  /\ role = [x \in Roles |-> "NONE"]
  /\ counts = NoCounts /\ counting = "done"
  /\ listed = {} /\ cells = NoCells /\ awaiting = {}
  /\ standing = {} /\ settled = {}
  /\ reader \in {"getSummary", "getPipeline"}

exists(x) == role[x] \in {"OPEN", "CLOSED"}
entered == {a \in Apps : application[a] # Null}
active == {a \in Apps : Live(a)}
closedWith(status) == {a \in entered : application[a].status = status}

-----------------------------------------------------------------------------
(***************************************************************************)
(* The writers, as committed steps.                                        *)
(***************************************************************************)

\* createRole and updateRole.
SetRole(x, status) ==
  /\ exists(x) \/ (role[x] = "NONE" /\ status = "OPEN")
  /\ role' = [role EXCEPT ![x] = status]
  /\ UNCHANGED <<vars, summary, board>>

\* onDelete: Restrict.
deletable(x) == exists(x) /\ \A a \in entered : RoleOf[a] # x

DeleteRole(x) ==
  /\ deletable(x)
  /\ role' = [role EXCEPT ![x] = "DELETED"]
  /\ UNCHANGED <<vars, summary, board>>

\* The foreign key asks that the role is there; it may have been closed since
\* createApplication read it.
ChangeApplication ==
  /\ Next
  /\ \A a \in Apps : application[a] = Null /\ application'[a] # Null => exists(RoleOf[a])
  /\ UNCHANGED <<role, summary, board>>

-----------------------------------------------------------------------------
(***************************************************************************)
(* getSummary, one count after the other.                                  *)
(***************************************************************************)

Count(statement, number, set, next) ==
  /\ counting = statement
  /\ counts' = [counts EXCEPT ![number] = Cardinality(set)]
  /\ counting' = next
  /\ UNCHANGED <<vars, role, board>>

BeginSummary ==
  /\ counting = "done"
  /\ counts' = NoCounts /\ counting' = "total"
  /\ UNCHANGED <<vars, role, board>>

\* Mutant: the two outcomes counted ahead of the ACTIVE ones.
getSummaryOutcomesFirst ==
  \/ Count("total", "totalApplicants", entered, "hired")
  \/ Count("hired", "hired", closedWith("HIRED"), "rejected")
  \/ Count("rejected", "rejected", closedWith("REJECTED"), "active")
  \/ Count("active", "activeApplicants", active, "offers")
  \/ Count("offers", "offers", {a \in active : application[a].currentStage = "OFFER"}, "done")

getSummary ==
  \/ Count("total", "totalApplicants", entered, "active")
  \/ Count("active", "activeApplicants", active, "offers")
  \/ Count("offers", "offers", {a \in active : application[a].currentStage = "OFFER"}, "hired")
  \/ Count("hired", "hired", closedWith("HIRED"), "rejected")
  \/ Count("rejected", "rejected", closedWith("REJECTED"), "done")

(***************************************************************************)
(* getPipeline: the roles and the aggregate, asked for at once on two      *)
(* connections and answered in either order.                               *)
(***************************************************************************)

BeginBoard ==
  /\ awaiting = {}
  /\ awaiting' = {"roles", "cells"}
  /\ standing' = active /\ settled' = entered \ active
  /\ listed' = {} /\ cells' = NoCells
  /\ UNCHANGED <<vars, role, summary>>

\* Mutant: the open requisitions only.
boardRolesOpen(x) == role[x] = "OPEN"

\* Every role, the CLOSED ones too.
boardRoles(x) == exists(x)

ReadRoles ==
  /\ "roles" \in awaiting
  /\ listed' = {x \in Roles : boardRoles(x)}
  /\ awaiting' = awaiting \ {"roles"}
  /\ UNCHANGED <<vars, role, summary, cells, standing, settled>>

\* The ACTIVE applications of a role, whatever their stage.
group(x) == {a \in active : RoleOf[a] = x}

aggregatePipeline ==
  /\ "cells" \in awaiting
  /\ cells' = [x \in Roles |-> group(x)]
  /\ awaiting' = awaiting \ {"cells"}
  /\ UNCHANGED <<vars, role, summary, listed, standing, settled>>

\* The roles drive the board: a group of a role that was not listed is lost.
totalActive(x) == IF x \in listed THEN Cardinality(cells[x]) ELSE 0

-----------------------------------------------------------------------------
Write ==
  \/ \E x \in Roles : DeleteRole(x) \/ \E status \in {"OPEN", "CLOSED"} : SetRole(x, status)
  \/ ChangeApplication

\* One reader at a time: neither reads what the other does.
DashboardNext ==
  /\ \/ Write
     \/ reader = "getSummary" /\ (BeginSummary \/ getSummary)
     \/ reader = "getPipeline" /\ (BeginBoard \/ ReadRoles \/ aggregatePipeline)
  /\ UNCHANGED reader

DashboardSpec == DashboardInit /\ [][DashboardNext]_dashboardVars

-----------------------------------------------------------------------------
DashboardTypeOK ==
  /\ application \in [Apps -> ApplicationRow \cup {Null}]
  /\ role \in [Roles -> {"NONE", "OPEN", "CLOSED", "DELETED"}]
  /\ counts \in [Numbers -> 0 .. Cardinality(Apps)]
  /\ counting \in {"total", "active", "offers", "hired", "rejected", "done"}
  /\ listed \subseteq Roles
  /\ cells \in [Roles -> SUBSET Apps]
  /\ \A x \in Roles : \A a \in cells[x] : RoleOf[a] = x
  /\ awaiting \subseteq {"roles", "cells"} /\ standing \subseteq Apps /\ settled \subseteq Apps

\* The summary may count a candidate twice, never not at all: the ACTIVE ones
\* are counted ahead of the outcomes they may turn into meanwhile.
NobodyDropped ==
  counting = "done" =>
    counts["totalApplicants"] <=
      counts["activeApplicants"] + counts["hired"] + counts["rejected"]

\* "CLOSED roles are included: one with live applications in it is exactly the
\* role people get forgotten in."  Whoever was ACTIVE when the board was asked
\* for, and is still, is on it, under a role that may be created, closed or
\* deleted while its two queries run; and nobody is who was never ACTIVE since.
BoardForgetsNobody ==
  awaiting = {} => \A x \in Roles :
    LET waited == {a \in standing \cap active : RoleOf[a] = x}
        possible == {a \in entered \ settled : RoleOf[a] = x}
    IN  /\ Cardinality(waited) <= totalActive(x)
        /\ totalActive(x) <= Cardinality(possible)

\* getSummary's comment (pipeline.service.ts:602): "One `$transaction` so the
\* seven numbers describe one instant."  At any instant they add up.
SummaryIsOneInstant ==
  counting = "done" =>
    /\ counts["totalApplicants"] =
         counts["activeApplicants"] + counts["hired"] + counts["rejected"]
    /\ counts["offers"] <= counts["activeApplicants"]
=============================================================================
