SPECIFICATION Spec
CONSTANTS
  Null = Null
  Apps = {a1}
  Transactions = {r1, r2, r3}
  Requests = {r1, r2, r3}
SYMMETRY RequestSymmetry
INVARIANTS
  HiredOnlyFromOffer
