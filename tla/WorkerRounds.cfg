SPECIFICATION Spec
CONSTANTS
  Affiliations = {a1, a2}
  CutoffDays = {0}
  Contracts = {1}
  AdminCalls = {}
  NoSchedule = NoSchedule
  Idle = Idle
  Active = {a1}
  Workers = {w1, w2}
  Operators = {o1}
  MaxAttempts = 2
  BatchSize = 2
  LastDay = 0
  MaxFailures = 1
  NoBatch = NoBatch
  Nobody = Nobody
INVARIANTS
  TypeOK
  OverlapOnlyByLostLock
PROPERTIES
  RetriesHappen
