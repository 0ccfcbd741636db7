SPECIFICATION Spec
CONSTANTS
  director = director
  recorder = recorder
  staff = staff
  admin = admin
  t1 = t1
  t2 = t2
  aff = aff
  e1 = e1
  e2 = e2
  NoEmployee = NoEmployee
  NoAssignment = NoAssignment
  NoForm = NoForm
  Idle = Idle
  Tenants = {t1}
  Affiliations = {aff}
  Employees = {e1, e2}
  GrantsOf <- MCGrantsOf
  EmployeeOf <- MCEmployeeOf
  AffiliationOf <- MCAffiliationOf
  TenantWorkspaces <- MCTenantWorkspaces
  AffiliationWorkspaces <- MCAffiliationWorkspaces
  Memberships <- MCMemberships
  CountedDays <- MCCountedDays
  Users <- RacingUsers
  MappedSubjects = {}
  LastDate = 1
  LastLeaveDate = 2
  Leaves = {l1, l2}
  Calls = {c1, c2}
  Assignments = {}
  AdminCalls = {}
SYMMETRY Symmetry
CHECK_DEADLOCK FALSE
INVARIANTS
  TypeOK
  RevisionLogExact
  PaperTrailExact
  SeparationOfDuties
  OverlapOnlyByRace
  PendingCallsJustified
PROPERTIES
  RefinesWorkflow
