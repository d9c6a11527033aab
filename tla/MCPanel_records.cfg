SPECIFICATION AccessSpec
CONSTANTS
  r1 = r1
  r2 = r2
  r3 = r3
  Null = Null
  Rounds = {"round"}
  Interviewers = {"panellist"}
  Others = {"recruiter"}
  Ratings = {1, 2}
  Requests = {r1, r2, r3}
SYMMETRY RequestSymmetry
INVARIANTS
  AnswersAreOnRecord
  PanelAuditAlternates
  FeedbackAuditTold
  HonestAnswers
PROPERTIES
  NoLostEdit
