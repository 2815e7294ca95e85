SPECIFICATION Spec
CONSTANTS
  Nominal = 10
  MaximumLoss = 2
  DailyLoss = 1
  ProfitTarget = 2
  BestDayMax = 100
  MaxDay = 2
  Amounts <- Winnings
  Unrealized <- SmallUnrealized
  Lag = 1
  MaxSwing = 3
  MaxCrashes = 1
PROPERTIES FinalizedIsFrozen
CHECK_DEADLOCK FALSE
