SPECIFICATION Spec
CONSTANTS
  x1 = x1
  c1 = c1
  c2 = c2
  r1 = r1
  r2 = r2
  r3 = r3
  Null = Null
  Roles = {x1}
  Candidates = {c1, c2}
  Requests = {r1, r2, r3}
SYMMETRY RequestSymmetry
INVARIANTS
  NoDanglingApplication
  HonestAnswers
  NobodyStuck
PROPERTIES
  NoLostTitle
