SPECIFICATION Spec
CONSTANTS
  Leaves = {}
  Calls = {c1, c2}
  MaxAttempts = 4
  LastTime = 1
  Cutoffs = {1}
  MaxVersion = 1
  NoBatch = NoBatch
  NoDelivery = NoDelivery
  Idle = Idle
SYMMETRY Symmetry
CHECK_DEADLOCK FALSE
INVARIANTS
  TypeOK
  AttemptsExact
  AppliedOnce
  StatusExplained
  ReconciliationHonest
