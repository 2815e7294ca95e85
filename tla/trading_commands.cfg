SPECIFICATION Spec
CONSTANTS
  Nominal = 20
  MaximumLoss = 5
  DailyLoss = 3
  ProfitTarget = 4
  BestDayMax = 100
  MaxDay = 1
  Eur = Eur
  Gbp = Gbp
  Symbols = {Eur, Gbp}
  Bucket <- OneBucket
  ExposureLimit = 3
  Lots = {1, 2}
  Prices = {0, 3}
  Commission = 1
  MaxKeys = 3
  MaxPositions = 2
INVARIANTS LedgerMatchesPositions ExposureStaysWithinLimit
PROPERTIES DecidedOnce FilledCommandsLeaveNoBreach BreachClosesWhatItCan
CHECK_DEADLOCK FALSE
