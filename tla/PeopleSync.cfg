SPECIFICATION SyncSpec
CONSTANTS
  a = a
  b = b
  e1 = e1
  u1 = u1
  NoOne = NoOne
  p1 = p1
  p2 = p2
  Earlier = {p1, p2}
  Runs = {r1, r2}
  Employees = {e1}
  Centers = {a, b}
  Accounts = {u1}
  Sources <- MCSources
  Beginnings <- MCBeginnings
  LastDay = 3
  MaxChanges = 1
INVARIANTS
  SyncTypeOK
  MembershipsInOrder
  LastCommitStands
  ReportsTrue
PROPERTIES
  HistoryKept
  RepeatedSyncIdle
CHECK_DEADLOCK FALSE
