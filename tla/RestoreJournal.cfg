SPECIFICATION Spec
CONSTANTS
  Workers = {w1}
  Restorers = {r1}
  Nobody = Nobody
  MaxRequests = 1
  MaxRestores = 1
  Kinds = {"ledger"}
  WalMode = TRUE
  Faults = {}
INVARIANT JournalDescribesDb
CHECK_DEADLOCK FALSE
