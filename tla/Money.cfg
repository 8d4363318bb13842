SPECIFICATION SpecHalves
CONSTANTS
  Payment = {p1, p2}
  Driver = {d1}
  Merchant = Merchant
  NoDriver = NoDriver
  NoPayment = NoPayment
  Request = {r1, r2}
  Amount = {1, 15}
  MerchantPercent = 70
  DriverPercent = 20
  PlatformPercent = 10
  MaxRequests = 4
  Restaurant = {m1}
  Platform = Platform
  Tax = Tax
  NoOwner = NoOwner
  Wallet = {w1, w2}
  NoWallet = NoWallet
  MinWithdraw = 2
  MinCodBalance = 2
  Dong <- Amounts
  MaxHandlers = 3
INVARIANTS Inv PaidOnce CutSplitIsStuck RowTellsMoney LedgerMatches OneWallet OneWithdrawalADay
PROPERTIES UndisturbedFollowsLife FloorKept
SYMMETRY Interchangeable
CHECK_DEADLOCK FALSE
