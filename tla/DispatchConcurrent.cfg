SPECIFICATION SpecHalves
CONSTANTS
  Dispatch = {p1, p2}
  Order = {o1}
  Driver = {d1, d2}
  NoDriver = NoDriver
  NoOrder = NoOrder
  NoDispatch = NoDispatch
  Request = {r1, r2}
  MaxOverlaps = 2
  Courier = {c1, c2, c3}
  NoCourier = NoCourier
  Metre = {1000, 2000, 6000}
  QueryLimit = 2
  MaxChanges = 1
INVARIANTS AskedOnce SingleDispatch MatchIsNearest
PROPERTIES UndisturbedFollowsOffers
SYMMETRY Interchangeable
CHECK_DEADLOCK FALSE
