SPECIFICATION FairSpec
CONSTANTS
  NoLevel = NoLevel
  P1 = P1
  K1 = K1
  K2 = K2
  R1 = R1
  R2 = R2
  G1 = G1
  G2 = G2
  Positions = {P1}
  Opened <- TwoLots
  Keys = {K1}
  Quantities = {1}
  Prices = {1, 2}
  Reducers = {R1, R2}
  Guards = {G1}
  Jams = {"reductions", "protections"}
PROPERTIES QueuedReductionsSettle StopsFire
CHECK_DEADLOCK FALSE
