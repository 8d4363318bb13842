SPECIFICATION Spec
CONSTANTS
  Item = {i1}
  Order = {a}
  Request = {r1}
  Job = {j1}
  NoItem = NoItem
  MaxStock = 2
  MaxQuantity = 2
  MaxTimeout = 1
  MaxEvents = 3
  Horizon = 1
INVARIANTS StockWithinTotal
CHECK_DEADLOCK FALSE
