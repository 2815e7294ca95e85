SPECIFICATION FairSpec
CONSTANTS
  Nominal = 10
  MaximumLoss = 2
  DailyLoss = 1
  ProfitTarget = 2
  BestDayMax = 100
  MaxDay = 2
  Amounts <- SmallAmounts
  Unrealized <- SmallUnrealized
  Lag = 1
  MaxSwing = 2
  MaxCrashes = 1
INVARIANTS FloorIsTrailing EodIsTheLedger SettledAboveFloor
PROPERTIES ElapsedDaysAreFinalized SettledAccountsOnlyAdvance
CHECK_DEADLOCK FALSE
