SPECIFICATION Spec
CONSTANTS
  A = A
  B = B
  NoNode = NoNode
  Nodes = {A, B}
  Families = {positions}
  Lease = 2
  Skew <- InStep
  MaxTime = 3
  MaxOutages = 1
CHECK_DEADLOCK FALSE
INVARIANTS
  EpochHasOneOwner
  OneLeader
PROPERTY Fenced
