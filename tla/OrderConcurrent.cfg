SPECIFICATION SpecHalves
CONSTANTS
  Order = {o1}
  Driver = {d1, d2}
  NoDriver = NoDriver
  NoOrder = NoOrder
  Request = {r1, r2}
  MaxRequests = 6
  LastOrder = 3
  Take = 1
  Reading = {x1, x2}
  MaxOpened = 1
  MaxMoves = 3
  Chosen = {"PENDING"}
  Age = {0, 1, 2, 13}
  Weekday = {0}
INVARIANTS CartKept OneCourierServed PagesInv
PROPERTIES UndisturbedFollowsLifecycle
SYMMETRY Interchangeable
CHECK_DEADLOCK FALSE
