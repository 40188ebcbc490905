SPECIFICATION IndexerFairSpec
CONSTANTS
  MaxTasks = 3
  MaxRestores = 1
PROPERTY IndexerResumed
CHECK_DEADLOCK FALSE
