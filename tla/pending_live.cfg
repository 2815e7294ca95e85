SPECIFICATION FairSpec
CONSTANTS
  Low = Low
  High = High
  S1 = S1
  S2 = S2
  Orders = {High}
  Kind <- OneOfEach
  Prices = {0, 1, 2}
  Lots = {1, 2}
  Slippage = 1
  ExposureLimit = 2
  Scans = {S1, S2}
  MaxVersion = 1
PROPERTIES MetTriggersSettle
CHECK_DEADLOCK FALSE
