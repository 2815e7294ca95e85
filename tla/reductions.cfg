SPECIFICATION Spec
CONSTANTS
  NoLevel = NoLevel
  P1 = P1
  K1 = K1
  K2 = K2
  R1 = R1
  R2 = R2
  G1 = G1
  G2 = G2
  Positions = {P1}
  Opened <- TwoLots
  Keys = {K1, K2}
  Quantities = {1}
  Prices = {1}
  Reducers = {R1, R2}
  Guards = {G1, G2}
  Jams = {}
SYMMETRY AnyKeyAnyScan
INVARIANTS ExecutedWithItsOrder LotsAreAccountedFor
PROPERTIES SettledStaysSettled
CHECK_DEADLOCK FALSE
