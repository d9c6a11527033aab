SPECIFICATION InterviewsSpec
CONSTANTS
  Null = Null
  Apps = {a1}
  Requests = {r1}
  Verdicts = {v1, v2}
  Transactions = {r1, v1, v2}
  Rounds = {i1, i2}
  RoundStages = {"SCREEN"}
SYMMETRY VerdictSymmetry
INVARIANTS
  VerdictApplied
  HonestVerdicts
  NobodyStuck
PROPERTIES
  DecisionIsFinal
  ImplementsLifecycle
