SPECIFICATION FairSpec
CONSTANTS
  Null = Null
  Apps = {a1}
  Transactions = {r1, r2, r3}
  Requests = {r1, r2, r3}
INVARIANTS
  InFlight
  HistoryExplainsRow
  NoSilentSkip
  NoOrphanOverride
  AuditMirrorsHistory
  HonestAnswers
  ConflictHasWinner
PROPERTIES
  TerminalIsTerminal
  ImplementsLifecycle
  AllAnswered
