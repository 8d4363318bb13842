SPECIFICATION FairSpec
CONSTANTS
  Item = {i1, i2}
  Order = {a, b}
  Request = {r1}
  Job = {j1}
  NoItem = NoItem
  MaxStock = 2
  MaxQuantity = 1
  MaxTimeout = 1
  MaxEvents = 4
  Horizon = 1
INVARIANTS StockKept ReservedMatches
PROPERTIES PromiseKept ExpiredStockReturns
CHECK_DEADLOCK FALSE
