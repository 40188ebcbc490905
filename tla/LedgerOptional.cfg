SPECIFICATION Spec
CONSTANTS
  w1 = w1
  w2 = w2
  raw = raw
  product = product
  NoItem = NoItem
  Nobody = Nobody
  Items = {raw, product}
  Workers = {w1}
  Qtys = {1, 2}
  Runs <- MCShared
  Kinds = {"run"}
  Faults = {}
  Opening <- MCOpening
  MaxBatches = 4
  MaxRequests = 2
INVARIANTS
  OptionalNeverBlocks
CHECK_DEADLOCK FALSE
