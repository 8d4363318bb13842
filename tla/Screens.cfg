SPECIFICATION FairScreensSpec
CONSTANTS
  Job = {j1, j2}
  Amount = {1, 2}
  Opening = 3
  MinTopup = 2
  MinWithdraw = 1
  MinPayout = 2
  MinCodBalance = 2
  MaxPayments = 2
  Query = {q1, q2}
  Nothing = Nothing
  Short = Short
  Empty = {q2}
  Fetch = {f1, f2}
  Place = {p1, p2}
  Home = p1
  MaxTyped = 2
  MaxUpdates = 2
  Item = {i1, i2}
  Call = {c1, c2}
  MaxCalls = 3
  MaxOthers = 1
INVARIANTS ScreensInv WhatPagesTell
PROPERTIES PagesComeBack
CHECK_DEADLOCK FALSE
