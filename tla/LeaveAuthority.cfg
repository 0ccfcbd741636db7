SPECIFICATION Spec
CONSTANTS
  director = director
  recorder = recorder
  staff = staff
  admin = admin
  t1 = t1
  t2 = t2
  aff = aff
  e1 = e1
  e2 = e2
  NoEmployee = NoEmployee
  NoAssignment = NoAssignment
  NoForm = NoForm
  Idle = Idle
  Tenants = {t1, t2}
  Affiliations = {aff}
  Employees = {e1, e2}
  GrantsOf <- MCGrantsOf
  EmployeeOf <- MCEmployeeOf
  AffiliationOf <- MCAffiliationOf
  TenantWorkspaces <- MCTenantWorkspaces
  AffiliationWorkspaces <- MCAffiliationWorkspaces
  Memberships <- MCMemberships
  CountedDays <- MCCountedDays
  Users <- DelegatingUsers
  MappedSubjects = {staff}
  LastDate = 2
  LastLeaveDate = 1
  Leaves = {l1}
  Calls = {c1}
  Assignments = {d1}
  AdminCalls = {k1}
CHECK_DEADLOCK FALSE
INVARIANTS
  AuthorityWasHeld
