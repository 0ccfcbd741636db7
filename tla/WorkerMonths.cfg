SPECIFICATION Spec
CONSTANTS
  Affiliations = {a1}
  CutoffDays = {1}
  Contracts = {1, 2}
  AdminCalls = {k1, k2}
  NoSchedule = NoSchedule
  Idle = Idle
  Active = {a1}
  Workers = {w1}
  Operators = {}
  MaxAttempts = 1
  BatchSize = 1
  LastDay = 1
  MaxFailures = 1
  NoBatch = NoBatch
  Nobody = Nobody
INVARIANTS
  ApprovalGapOnlyByRace

  
