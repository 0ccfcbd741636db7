--------------------------- MODULE MCLeaveRequests ---------------------------
(***************************************************************************)
(* Two cast lists.  In the races, a director (position pcu_director) owns  *)
(* leaves and also holds the grant to decide them, and a recorder (role    *)
(* PAPER_RESULT_RECORDER) is no employee.  In the authority run a staff    *)
(* member, who has no direct grant, decides a director's leave in one of   *)
(* two tenants through assignments that an administrator manages.          *)
(***************************************************************************)
EXTENDS LeaveRequests, TLC

CONSTANTS director, recorder, staff, admin, t1, t2, aff, e1, e2

RacingUsers == {director, recorder}
DelegatingUsers == {director, staff, admin}

MCGrantsOf ==
  [ u \in Users |->
      CASE u = director -> PermissionsFromPortalClaims({}, {"pcu_director"})
        [] u = recorder -> PermissionsFromPortalClaims({"PAPER_RESULT_RECORDER"}, {})
        [] u = staff    -> PermissionsFromPortalClaims({"pcu_staff", "unlisted"}, {})
        [] u = admin    -> {"authorization.delegated-approver.manage"} ]

MCEmployeeOf ==
  [ u \in Users |->
      CASE u = director -> e1 [] u = staff -> e2 [] OTHER -> NoEmployee ]

MCAffiliationOf == [ t \in Tenants |-> aff ]
MCTenantWorkspaces == [ u \in Users |-> IF u = admin THEN {} ELSE Tenants ]
MCAffiliationWorkspaces == [ u \in Users |-> IF u = admin THEN {aff} ELSE {} ]

(* Everyone is employed everywhere on every date, and every date counts.     *)
MCMemberships ==
  [ employee : Employees, tenant : Tenants, effectiveFrom : {1}, effectiveTo : {LastLeaveDate} ]

MCCountedDays ==
  [ d \in LeaveDates \X LeaveDates |->
      IF d[1] > d[2] THEN 0 ELSE d[2] - d[1] + 1 ]

Symmetry == Permutations(Leaves) \cup Permutations(Calls)
=============================================================================
