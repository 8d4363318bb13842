SPECIFICATION SpecConsumer
CONSTANTS
  Consumer = {c1}
  NoConsumer = NoConsumer
  Entry = {1, 2, 3}
  NoEntry = NoEntry
  Text = {home, work}
  Request = {1, 2}
  MaxEntries = 2
  MaxRequests = 5
  d1 = d1
  d2 = d2
  m1 = m1
  m2 = m2
  near = near
  far = far
  Dish = {d1, d2}
  Merchant = {m1, m2}
  NoMerchant = NoMerchant
  Kitchen <- KitchenOf
  Price <- PriceOf
  Place = {near, far}
  NoPlace = NoPlace
  Here = near
  Metres <- MetresTo
  Order = {1, 2}
  Hour <- Hours
  Sky <- Skies
  Code <- Codes
  MaxQuantity = 2
  MaxClicks = 7
INVARIANTS Inv CheckoutInv FeeForThePlace ShownIsCharged
PROPERTIES UndisturbedFollowsBook FollowsPurchase
CHECK_DEADLOCK FALSE
