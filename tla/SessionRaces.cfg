SPECIFICATION Spec
CONSTANTS
  Logins = {g1}
  Accounts = {p1}
  Sessions = {s1, s2}
  Calls = {c1, c2}
  Ttl = 3
  IdleTimeout = 2
  Retention = 1
  LastTime = 4
  NoSession = NoSession
  Idle = Idle
CHECK_DEADLOCK FALSE
INVARIANTS
  TypeOK
PROPERTIES
  RevocationStands
  RefinesLogins
  SessionsAreCleared
