SPECIFICATION FairInterviewsSpec
CONSTANTS
  Null = Null
  Apps = {a1}
  Requests = {r1}
  Verdicts = {v1}
  Transactions = {r1, v1}
  Rounds = {i1}
  RoundStages = {"SCREEN"}
PROPERTIES
  RoundOnlyOnLiveApplication
