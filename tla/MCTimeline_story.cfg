SPECIFICATION TimelineSpec
CONSTANTS
  a1 = a1
  r1 = r1
  v1 = v1
  v2 = v2
  i1 = i1
  i2 = i2
  Null = Null
  Apps = {a1}
  Requests = {r1}
  Verdicts = {v1}
  Transactions = {r1, v1}
  Rounds = {i1, i2}
  RoundStages = {"SCREEN"}
INVARIANTS
  OutcomeHasItsRound
  RelationsCatchUp
PROPERTIES
  TimelineNeverRetracts
