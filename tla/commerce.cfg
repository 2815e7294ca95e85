SPECIFICATION Spec
CONSTANTS
  P1 = P1
  E1 = E1
  E2 = E2
  E3 = E3
  None = None
  Purchases = {P1}
  Offers = {"ONE", "FLEX", "INSTANT"}
  Events = {E1, E2, E3}
  Window = 1
  Wait = 1
  MaxTime = 3
SYMMETRY AnyEvent
INVARIANTS OrdersMatchAccounts AcknowledgedIsHonoured HandoffAgrees EventsCountOnce
CHECK_DEADLOCK FALSE
