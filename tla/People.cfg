SPECIFICATION SpecPeople
CONSTANTS
  Driver = {d1, d2}
  User = {u1}
  NoUser = NoUser
  Order = {o1}
  NoOrder = NoOrder
  NoSession = NoSession
  NoDriver = NoDriver
  Request = {r1, r2}
  Reported = {2}
  WarningMinutes = 1
  CriticalMinutes = 3
  MaxRequests = 6
  MaxClock = 2
  Person = {a1, a2}
  Nobody = Nobody
  Phone = {n1, n2}
  NoPhone = NoPhone
  Password = {w1, w2}
  NoPassword = NoPassword
  Page = {g1}
  Client = {s1, s2}
  MaxCalls = 4
  Tab = {t1, t2}
  MaxLogins = 3
  MaxLoads = 3
INVARIANTS PeopleInv PagesKnowTheirAccount
PROPERTIES  AccountsFollowLife
SYMMETRY Interchangeable
CHECK_DEADLOCK FALSE
