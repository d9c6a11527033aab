SPECIFICATION Spec
CONSTANTS
  r1 = r1
  r2 = r2
  r3 = r3
  r4 = r4
  Null = Null
  Script = Script
  Users = {"u", "v"}
  Requests = {r1, r2, r3, r4}
SYMMETRY RequestSymmetry
INVARIANTS
  OneLiveToken
  RotatedOnce
  HonestAnswers
  NobodyStuck
  FamilyEnds
PROPERTIES
  OtherSessionsUntouched
