SPECIFICATION Spec
CONSTANTS
  R1 = R1
  R2 = R2
  A = A
  B = B
  Breach = Breach
  Lock = Lock
  None = None
  Requests = {R1, R2}
  Decisions = {Breach, Lock}
  Correctable = {Breach}
  Staff = {A, B}
  MaxEdits = 6
SYMMETRY AnyRequestAnyStaff
INVARIANTS ClosedIsDecided OneLiveContestation CorrectedMeansReplaced
PROPERTIES ActsOnWhatIsShown CasesMoveForward
CHECK_DEADLOCK FALSE
