----------------------------- MODULE Permissions -----------------------------
(***************************************************************************)
(* The capability allowlist of platform/auth/permissions.ts: which Portal  *)
(* role and position codes grant which One Data permissions, and the       *)
(* widest data scope the API gives an operation.  Permissions are the      *)
(* source's own strings; "*" grants every one of them.                     *)
(***************************************************************************)
AllPermission == "*"

Permission ==
  { "dashboard.view", "employee.profile.read", "employee.master-data.sync",
    "employee.identity-mapping.manage", "authorization.delegated-approver.manage",
    "leave.request.read", "leave.request.create", "leave.request.submit",
    "leave.request.cancel", "leave.paper-decision.record", "leave.request.void",
    "leave.policy.manage", "leave.snapshot.manage", "leave.snapshot.schedule.manage" }

Grant == Permission \cup {AllPermission}

RequesterPermissions ==
  { "dashboard.view", "leave.request.read", "leave.request.create",
    "leave.request.submit", "leave.request.cancel" }

ViewerPermissions == { "dashboard.view", "employee.profile.read", "leave.request.read" }

ManagerPermissions ==
  ViewerPermissions \cup
  { "leave.request.create", "leave.request.submit", "leave.request.cancel",
    "leave.paper-decision.record", "leave.request.void" }

PeopleAdminPermissions ==
  ManagerPermissions \cup
  { "employee.master-data.sync", "employee.identity-mapping.manage",
    "authorization.delegated-approver.manage", "leave.policy.manage",
    "leave.snapshot.manage", "leave.snapshot.schedule.manage" }

RolePermissions ==
  [ DEVELOPMENT_ONLY         |-> {AllPermission},
    super_admin              |-> {AllPermission},
    health_admin             |-> PeopleAdminPermissions,
    health_division_director |-> PeopleAdminPermissions,
    health_admin_officer     |-> PeopleAdminPermissions,
    health_staff             |-> ViewerPermissions,
    pcu_staff                |-> RequesterPermissions,
    pcu_director             |-> ManagerPermissions,
    viewer                   |-> ViewerPermissions,
    PAPER_RESULT_RECORDER    |-> { "dashboard.view", "leave.request.read",
                                   "leave.paper-decision.record", "leave.request.void" },
    PEOPLE_SYNC_ADMIN        |-> { "dashboard.view", "employee.profile.read",
                                   "employee.master-data.sync",
                                   "employee.identity-mapping.manage" },
    SPECIAL_SNAPSHOT_ADMIN   |-> { "dashboard.view", "leave.request.read",
                                   "leave.snapshot.manage" } ]

PositionPermissions ==
  [ health_division_director  |-> PeopleAdminPermissions,
    health_admin_officer      |-> PeopleAdminPermissions,
    pcu_director              |-> ManagerPermissions,
    pcu_public_health_officer |-> ViewerPermissions \cup RequesterPermissions,
    executive_viewer          |-> ViewerPermissions ]

(* Codes that are not listed grant nothing. *)
PermissionsFromPortalClaims(roles, positions) ==
  UNION ( { RolePermissions[r] : r \in roles \cap DOMAIN RolePermissions } \cup
          { PositionPermissions[p] : p \in positions \cap DOMAIN PositionPermissions } )

HasPermission(grants, p) == AllPermission \in grants \/ p \in grants

(***************************************************************************)
(* scopeForPermission.  "none" is the source's null.                       *)
(***************************************************************************)
AffiliationWide ==
  { "employee.master-data.sync", "employee.identity-mapping.manage",
    "authorization.delegated-approver.manage", "leave.policy.manage",
    "leave.snapshot.manage", "leave.snapshot.schedule.manage" }

OwnOnly == { "leave.request.create", "leave.request.submit", "leave.request.cancel" }

ReadBeyondSelf ==
  { "leave.paper-decision.record", "leave.request.void", "employee.profile.read" }

ScopeForPermission(grants, p) ==
  LET widestRead == IF HasPermission(grants, "employee.master-data.sync")
                    THEN "affiliation" ELSE "tenant"
  IN  CASE ~HasPermission(grants, p)     -> "none"
        [] p \in AffiliationWide         -> "affiliation"
        [] p \in OwnOnly                 -> "self"
        [] p = "employee.profile.read"   -> widestRead
        [] p = "leave.request.read"      ->
             IF \E q \in ReadBeyondSelf : HasPermission(grants, q)
             THEN widestRead ELSE "self"
        [] OTHER                         -> "tenant"
=============================================================================
