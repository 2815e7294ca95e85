SPECIFICATION Spec
CONSTANTS
  Low = Low
  High = High
  S1 = S1
  S2 = S2
  Orders = {Low, High}
  Kind <- OneOfEach
  Prices = {0, 1, 2}
  Lots = {1}
  Slippage = 1
  ExposureLimit = 1
  Scans = {S1, S2}
  MaxVersion = 1
SYMMETRY AnyScan
INVARIANTS SettledWithItsOrder FilledWithinTrigger ExposureStaysWithinLimit
PROPERTIES SettledStaysSettled
CHECK_DEADLOCK FALSE
