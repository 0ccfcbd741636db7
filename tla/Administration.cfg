SPECIFICATION Spec
CONSTANTS
  annual = annual
  hajj = hajj
  doctor = doctor
  ALL = ALL
  LeaveTypes = {annual, hajj}
  Scopes = {doctor}
  COUNTING_RULES <- MCCountingRules
  ProvisionalAllowed = TRUE
  Weekend = {3}
  Holidays = {4}
  Policies = {p1, p2, p3}
  Codes = {1, 2}
  PROVISIONAL = PROVISIONAL
  NoPolicy = NoPolicy
  LastDate = 4
  Drafts <- MCDrafts
  Publishers = {x, y}
  Mappers = {x, y}
  Admins = {x, y}
  NoPublish = NoPublish
  Subjects = {s1}
  Employees = {e1, e2}
  NoMap = NoMap
  NoOne = NoOne
SYMMETRY Symmetry
INVARIANTS
  TypeOK
  OverlapOnlyByRace
  CalculationsExact
PROPERTIES
  RulebookStands
  MappingMovesOnlyByRace
