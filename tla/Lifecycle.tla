------------------------------ MODULE Lifecycle ------------------------------
(***************************************************************************)
(* What the pipeline promises about one application, with no transactions, *)
(* no locks and no requests in flight: an application is entered once,     *)
(* moves along the stage graph or by an override nobody has used before,   *)
(* and is closed once, for good.  Every change leaves one history row that *)
(* names who made it.  PipelineTables' writers implement it.               *)
(***************************************************************************)
EXTENDS PipelineRules, Sequences

CONSTANTS Apps, Actors, Null

VARIABLES application, stageHistory

vars == <<application, stageHistory>>

Init ==
  /\ application = [a \in Apps |-> Null]
  /\ stageHistory = [a \in Apps |-> <<>>]

Live(a) == application[a] # Null /\ application[a].status = "ACTIVE"

\* The stages an application has been at, by its own history.
Visited(a) == {stageHistory[a][i].toStage : i \in 1 .. Len(stageHistory[a])}

\* No history row carries this override yet: overrideId is @unique.
Unused(who) ==
  \A b \in Apps : \A i \in 1 .. Len(stageHistory[b]) : stageHistory[b][i].overrideId # who

Record(a, row) == stageHistory' = [stageHistory EXCEPT ![a] = Append(@, row)]

Enter(a) ==
  /\ application[a] = Null
  /\ application' = [application EXCEPT ![a] = [status |-> "ACTIVE", currentStage |-> "APPLIED"]]
  /\ Record(a, [fromStage |-> Null, toStage |-> "APPLIED", fromStatus |-> Null,
                toStatus |-> "ACTIVE", changedBy |-> Null, overrideId |-> Null])

Move(a, to, who, override) ==
  /\ Live(a)
  /\ application' = [application EXCEPT ![a].currentStage = to]
  /\ Record(a, [fromStage |-> application[a].currentStage, toStage |-> to,
                fromStatus |-> "ACTIVE", toStatus |-> "ACTIVE",
                changedBy |-> who, overrideId |-> override])

Advance(a, to, who) == Live(a) /\ canTransition(application[a].currentStage, to) /\ Move(a, to, who, Null)

Override(a, to, who) ==
  Live(a) /\ to # application[a].currentStage /\ Unused(who) /\ Move(a, to, who, who)

\* The stage an outcome was decided at is one the application has been at: it
\* need not be the stage it is at now, for the outcome's guard is on the
\* status alone.
Close(a, status, at, who) ==
  /\ Live(a)
  /\ at \in Visited(a)
  /\ canSetOutcome(at, status)
  /\ application' = [application EXCEPT ![a].status = status]
  /\ Record(a, [fromStage |-> at, toStage |-> at, fromStatus |-> "ACTIVE",
                toStatus |-> status, changedBy |-> who, overrideId |-> Null])

Next ==
  \E a \in Apps :
    \/ Enter(a)
    \/ \E who \in Actors, to \in PipelineStage : Advance(a, to, who) \/ Override(a, to, who)
    \/ \E who \in Actors, at \in PipelineStage, status \in {"HIRED", "REJECTED"} :
         Close(a, status, at, who)

Spec == Init /\ [][Next]_vars
=============================================================================
