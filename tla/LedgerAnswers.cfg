SPECIFICATION FairSpec
CONSTANTS
  w1 = w1
  w2 = w2
  raw = raw
  product = product
  NoItem = NoItem
  Nobody = Nobody
  Items = {raw, product}
  Workers = {w1, w2}
  Qtys = {1, 2}
  Runs <- MCRuns
  Kinds = {"purchase", "stock_in", "consume", "run", "inventory_run", "item_put"}
  Faults = {"crash", "io", "busy"}
  Opening <- MCOpening
  MaxBatches = 4
  MaxRequests = 2
INVARIANTS
  JournalCoversStockChanges
PROPERTIES
  RequestsAnswered
CHECK_DEADLOCK FALSE
