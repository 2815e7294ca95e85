SPECIFICATION FairSpec
CONSTANTS
  A = A
  B = B
  NoNode = NoNode
  Nodes = {A, B}
  Families = {positions}
  Lease = 1
  Skew <- InStep
  MaxTime = 1
  MaxOutages = 2
CHECK_DEADLOCK FALSE
PROPERTY LeaseIsTaken
