SPECIFICATION Spec
CONSTANTS
  R1 = R1
  R2 = R2
  Requests = {R1, R2}
  MaxCycles = 2
  DaysRequired = 1
  DayThreshold = 2
  BestDayLimit = 100
  Floor = 1
  Nominal = 1
  Caps <- TwoCaps
  Splits <- TwoSplits
  DebitNeutral = TRUE
  Asks = {2}
  Results <- WinOrLoss
  MaxDay = 3
  TroubleDays = {2}
  Balances = {1, 4, 6}
  Standings = {"good", "locked"}
SYMMETRY AnyRequest
INVARIANTS LedgerFollowsRequests BufferCoversApprovals DaysCountOnce OnlyApprovedIsSent CashWithinCap
PROPERTIES CyclesPayInTurn
CHECK_DEADLOCK FALSE
