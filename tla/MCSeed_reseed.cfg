SPECIFICATION Spec
CONSTANTS
  Null = Null
  OtherCandidates = {"other"}
  HandTitles = {"Designer"}
  MaxRuns = 2
  MaxRequests = 2
INVARIANTS
  ReseedRestores
  TraceMatchesRows
PROPERTIES
  OthersSurvive
