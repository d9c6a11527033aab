SPECIFICATION Spec
CONSTANTS
  r1 = r1
  r2 = r2
  r3 = r3
  Null = Null
  Candidates = {"candidate"}
  Others = {"recruiter"}
  Fields = {"phone", "location"}
  Requests = {r1, r2, r3}
SYMMETRY RequestSymmetry
INVARIANTS
  AuditTellsFields
  HonestAnswers
