SPECIFICATION Spec
CONSTANTS
  Leaves = {l1}
  Calls = {c1, c2}
  MaxAttempts = 2
  LastTime = 1
  Cutoffs = {1}
  MaxVersion = 2
  NoBatch = NoBatch
  NoDelivery = NoDelivery
  Idle = Idle
CHECK_DEADLOCK FALSE
PROPERTY
  AcknowledgementStands
