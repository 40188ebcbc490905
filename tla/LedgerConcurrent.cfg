SPECIFICATION Spec
CONSTANTS
  w1 = w1
  w2 = w2
  raw = raw
  product = product
  NoItem = NoItem
  Nobody = Nobody
  Items = {raw, product}
  Workers = {w1, w2}
  Qtys = {1, 2}
  Runs <- MCRuns
  Kinds = {"purchase", "stock_in", "consume", "run"}
  Faults = {"crash", "busy"}
  Opening <- MCOpening
  MaxBatches = 5
  MaxRequests = 3
SYMMETRY WorkerSymmetry
INVARIANTS
  TypeOK
  DriftOnlyByOverlap
  StoredMatchesBatches
  MovementsMatchRequests
  IssueIsFifo
  RunNeverOversells
CHECK_DEADLOCK FALSE
