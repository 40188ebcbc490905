SPECIFICATION Spec
CONSTANTS
  w1 = w1
  w2 = w2
  raw = raw
  product = product
  NoItem = NoItem
  Nobody = Nobody
  Items = {raw, product}
  Workers = {w1}
  Qtys = {1, 2}
  Runs <- MCAllRuns
  Kinds = {"purchase", "adjust_up", "stock_in", "consume", "stock_out", "adjust_down", "run", "inventory_run", "item_put"}
  Faults = {"crash", "io"}
  Opening <- MCOpening
  MaxBatches = 5
  MaxRequests = 3
PROPERTIES
  StockAtomic
CHECK_DEADLOCK FALSE
