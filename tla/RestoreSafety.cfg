SPECIFICATION FairSpec
CONSTANTS
  Workers = {w1, w2}
  Restorers = {r1, r2}
  Nobody = Nobody
  MaxRequests = 2
  MaxRestores = 2
  Kinds = {"ledger", "vendor", "raw", "export"}
  WalMode = TRUE
  Faults = {"crash", "archive", "audit", "append"}
INVARIANTS TypeOK MaintenanceWindow AnswerTruthful JournalsFollowDb
PROPERTIES DatabaseAtomic RestoreEnds
CHECK_DEADLOCK FALSE
