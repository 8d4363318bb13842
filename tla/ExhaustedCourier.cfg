SPECIFICATION Spec
CONSTANTS
  Driver = {d1}
  User = {u1}
  NoUser = NoUser
  Order = {o1}
  NoOrder = NoOrder
  NoSession = NoSession
  NoDriver = NoDriver
  Request = {r1}
  Reported = {3}
  WarningMinutes = 1
  CriticalMinutes = 3
  MaxRequests = 6
  MaxClock = 1
INVARIANTS ExhaustedMayRest
CHECK_DEADLOCK FALSE
