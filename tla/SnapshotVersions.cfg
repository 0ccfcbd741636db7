SPECIFICATION Spec
CONSTANTS
  Leaves = {l1}
  Calls = {c1, c2}
  MaxAttempts = 1
  LastTime = 2
  Cutoffs = {1, 2}
  MaxVersion = 2
  NoBatch = NoBatch
  NoDelivery = NoDelivery
  Idle = Idle
SYMMETRY Symmetry
CHECK_DEADLOCK FALSE
PROPERTIES
  RefinesLedger
