---------------------------- MODULE PipelineRules ----------------------------
(***************************************************************************)
(* The stage progression rule (pipeline.rules.ts): which stage follows     *)
(* which, which outcome may be set from where, and how many stages an      *)
(* override jumps over.  Pure operators over two constant maps, shared by  *)
(* the recruiter's pipeline writes and by the interview verdict.           *)
(***************************************************************************)
EXTENDS Integers

\* enum PipelineStage and enum ApplicationStatus.
PipelineStage == {"APPLIED", "SCREEN", "INTERVIEW", "OFFER"}
ApplicationStatus == {"ACTIVE", "HIRED", "REJECTED"}

\* The board order of the live pipeline, by position.
STAGE_ORDER ==
  [s \in PipelineStage |-> CASE s = "APPLIED"   -> 0
                             [] s = "SCREEN"    -> 1
                             [] s = "INTERVIEW" -> 2
                             [] s = "OFFER"     -> 3]

\* The stage graph: one step forward, nothing else.
ALLOWED_STAGE_TRANSITIONS ==
  [s \in PipelineStage |-> CASE s = "APPLIED"   -> {"SCREEN"}
                             [] s = "SCREEN"    -> {"INTERVIEW"}
                             [] s = "INTERVIEW" -> {"OFFER"}
                             [] s = "OFFER"     -> {}]

\* The outcomes reachable from each live stage.
ALLOWED_OUTCOMES ==
  [s \in PipelineStage |-> IF s = "OFFER" THEN {"HIRED", "REJECTED"} ELSE {"REJECTED"}]

\* Mutant: any stage further down the board counts as the next one.
canTransitionForward(from, to) == STAGE_ORDER[to] > STAGE_ORDER[from]

canTransition(from, to) == to \in ALLOWED_STAGE_TRANSITIONS[from]

canSetOutcome(from, status) == status \in ALLOWED_OUTCOMES[from]

\* Floored at 0: a move backwards undoes stages, it skips none.
stagesSkipped(from, to) ==
  LET between == STAGE_ORDER[to] - STAGE_ORDER[from] - 1
  IN  IF between > 0 THEN between ELSE 0
=============================================================================
