SPECIFICATION SpecRestaurant
CONSTANTS
  Merchant = {m1}
  NoMerchant = NoMerchant
  Item = {i1, i2}
  NoItem = NoItem
  Price = {1, 2}
  NoPrice = NoPrice
  Capacity = {1}
  Minute = {60}
  Request = {1, 2}
  MaxRequests = 4
  Driver = {1, 2}
  NoDriver = NoDriver
  Slot = {1, 2}
  MaxCalls = 6
INVARIANTS Inv MenuAsAgreed DeliveryInv
PROPERTIES PromisesKept UndisturbedFollowsLifecycle SpinnerEnds
CHECK_DEADLOCK FALSE
