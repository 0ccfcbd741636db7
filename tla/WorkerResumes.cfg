SPECIFICATION Spec
CONSTANTS
  Affiliations = {a1}
  CutoffDays = {0}
  Contracts = {1}
  AdminCalls = {k1}
  NoSchedule = NoSchedule
  Idle = Idle
  Active = {a1}
  Workers = {w1}
  Operators = {}
  MaxAttempts = 2
  BatchSize = 2
  LastDay = 0
  MaxFailures = 1
  NoBatch = NoBatch
  Nobody = Nobody
PROPERTIES
  MonthIsSent
