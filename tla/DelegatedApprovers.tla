-------------------------- MODULE DelegatedApprovers --------------------------
(***************************************************************************)
(* DelegatedApproverService: an affiliation-wide administrator lends one   *)
(* of two leave capabilities to a Portal subject, for a workspace and a    *)
(* range of dates, and may revoke it.  Every request reads first and       *)
(* writes later: between the two steps other requests run.                 *)
(*                                                                         *)
(* Dates are 1..LastDate; Forever stands for the absent effectiveTo.       *)
(***************************************************************************)
EXTENDS Integers, Permissions

CONSTANTS
  Users,                  \* signed-in Portal subjects
  Tenants,                \* ACTIVE tenants
  Affiliations,
  AffiliationOf,          \* the affiliation of each tenant
  GrantsOf,               \* the permission snapshot in each user's session
  TenantWorkspaces,       \* the tenant workspaces of each user's session
  AffiliationWorkspaces,  \* the affiliation workspaces of each user's session
  MappedSubjects,         \* subjects with an active employee mapping
  Assignments,            \* identifiers of assignment rows
  AdminCalls,             \* slots for administration requests in progress
  NoAssignment,           \* an assignment row that does not exist
  Idle,                   \* an unused request slot
  LastDate                \* bound: the last calendar date of the model

Dates == 1 .. LastDate
Forever == LastDate + 1
DelegatedCapabilities == { "leave.paper-decision.record", "leave.request.void" }
WorkspaceKinds == { "tenant", "affiliation" }

ASSUME DelegationAssumption ==
  /\ LastDate \in Nat \ {0}
  /\ Tenants \cap Affiliations = {}
  /\ AffiliationOf \in [Tenants -> Affiliations]
  /\ GrantsOf \in [Users -> SUBSET Grant]
  /\ TenantWorkspaces \in [Users -> SUBSET Tenants]
  /\ AffiliationWorkspaces \in [Users -> SUBSET Affiliations]
  /\ MappedSubjects \subseteq Users

Assignment ==
  [ subject       : Users,
    capability    : DelegatedCapabilities,
    kind          : WorkspaceKinds,
    workspace     : Tenants \cup Affiliations,
    effectiveFrom : Dates,
    effectiveTo   : Dates \cup {Forever},
    isActive      : BOOLEAN ]

AdminCall ==
  [ op : {"create"}, assignment : Assignment ] \cup
  [ op : {"revoke"}, id : Assignments ]

ASSUME DelegationSentinels ==
  /\ NoAssignment \notin Assignment
  /\ Idle \notin AdminCall

VARIABLES
  assignments,   \* DelegatedApproverAssignment rows
  adminCall,     \* what each administration request has read and will write
  today          \* the calendar date of the database's clock

delegationVars == << assignments, adminCall, today >>

DelegationTypeOK ==
  /\ assignments \in [Assignments -> Assignment \cup {NoAssignment}]
  /\ adminCall \in [AdminCalls -> AdminCall \cup {Idle}]
  /\ today \in Dates

DelegationInit ==
  /\ assignments = [a \in Assignments |-> NoAssignment]
  /\ adminCall = [k \in AdminCalls |-> Idle]
  /\ today = 1

Exists(a) == assignments[a] # NoAssignment

(* A revocation in progress is of a row that exists: rows are never deleted. *)
PendingRevokesExist ==
  \A k \in AdminCalls :
    (adminCall[k] # Idle /\ adminCall[k].op = "revoke") => Exists(adminCall[k].id)

CanManage(u) ==
  ScopeForPermission(GrantsOf[u], "authorization.delegated-approver.manage") = "affiliation"

(* assertWorkspaceAccess and accessibleWhere: the tenants of an accessible   *)
(* affiliation are accessible too.                                           *)
CanAccess(u, kind, w) ==
  \/ kind = "affiliation" /\ w \in AffiliationWorkspaces[u]
  \/ /\ kind = "tenant"
     /\ w \in Tenants
     /\ w \in TenantWorkspaces[u] \/ AffiliationOf[w] \in AffiliationWorkspaces[u]

SamePurpose(x, y) ==
  /\ x.subject = y.subject
  /\ x.capability = y.capability
  /\ x.kind = y.kind
  /\ x.workspace = y.workspace

PeriodsOverlap(x, y) ==
  x.effectiveFrom <= y.effectiveTo /\ y.effectiveFrom <= x.effectiveTo

(* The first half of create: every check, the overlap query among them.      *)
BeginCreateAssignment(k, u, x) ==
  /\ adminCall[k] = Idle
  /\ CanManage(u)
  /\ x.isActive
  /\ x.effectiveFrom <= x.effectiveTo
  /\ ~(x.kind = "affiliation" /\ x.capability = "leave.request.void")
  /\ CanAccess(u, x.kind, x.workspace)
  /\ x.subject \in MappedSubjects
  /\ \A a \in Assignments :
       ~(/\ Exists(a)
         /\ assignments[a].isActive
         /\ SamePurpose(assignments[a], x)
         /\ PeriodsOverlap(assignments[a], x))
  /\ adminCall' = [adminCall EXCEPT ![k] = [op |-> "create", assignment |-> x]]
  /\ UNCHANGED << assignments, today >>

(* The second half: the row is inserted under a fresh identifier.            *)
CommitCreateAssignment(k) ==
  /\ adminCall[k] # Idle
  /\ adminCall[k].op = "create"
  /\ \E a \in Assignments :
       /\ ~Exists(a)
       /\ assignments' = [assignments EXCEPT ![a] = adminCall[k].assignment]
  /\ adminCall' = [adminCall EXCEPT ![k] = Idle]
  /\ UNCHANGED today

(* The first half of revoke: the row is found, accessible and active.        *)
BeginRevoke(k, u, a) ==
  /\ adminCall[k] = Idle
  /\ CanManage(u)
  /\ Exists(a)
  /\ CanAccess(u, assignments[a].kind, assignments[a].workspace)
  /\ assignments[a].isActive
  /\ adminCall' = [adminCall EXCEPT ![k] = [op |-> "revoke", id |-> a]]
  /\ UNCHANGED << assignments, today >>

(* The second half updates by id, whatever the row has become meanwhile.     *)
CommitRevoke(k) ==
  /\ adminCall[k] # Idle
  /\ adminCall[k].op = "revoke"
  /\ assignments' = [assignments EXCEPT ![adminCall[k].id].isActive = FALSE]
  /\ adminCall' = [adminCall EXCEPT ![k] = Idle]
  /\ UNCHANGED today

(* The process dies, or the transaction fails and rolls back.                *)
AbandonAdminCall(k) ==
  /\ adminCall[k] # Idle
  /\ adminCall' = [adminCall EXCEPT ![k] = Idle]
  /\ UNCHANGED << assignments, today >>

NextDay ==
  /\ today < LastDate
  /\ today' = today + 1
  /\ UNCHANGED << assignments, adminCall >>

DelegationNext ==
  \/ \E k \in AdminCalls :
       \/ \E u \in Users, x \in Assignment : BeginCreateAssignment(k, u, x)
       \/ CommitCreateAssignment(k)
       \/ \E u \in Users, a \in Assignments : BeginRevoke(k, u, a)
       \/ CommitRevoke(k)
       \/ AbandonAdminCall(k)
  \/ NextDay

(***************************************************************************)
(* assertCanAct: a direct grant covers every tenant the request lookup     *)
(* admits; otherwise an assignment of kind tenant must be in force.  The   *)
(* query compares the time of day with effectiveTo's midnight, so that an  *)
(* assignment is over when its last date begins.                           *)
(***************************************************************************)
HasDirectScope(u, capability) ==
  ScopeForPermission(GrantsOf[u], capability) \in {"tenant", "affiliation"}

Covers(x, u, capability, t) ==
  /\ x.subject = u
  /\ x.capability = capability
  /\ x.kind = "tenant"
  /\ x.workspace = t

(* Mutants: an assignment serves for ever once it has been made, or whatever *)
(* its dates are; one for either capability serves for both; one for a       *)
(* tenant serves in all.                                                     *)
CanActOnceLent(u, capability, t) ==
  \/ HasDirectScope(u, capability)
  \/ \E a \in Assignments : Exists(a) /\ Covers(assignments[a], u, capability, t)

CanActOnAnyDate(u, capability, t) ==
  \/ HasDirectScope(u, capability)
  \/ \E a \in Assignments :
       /\ Exists(a)
       /\ assignments[a].isActive
       /\ Covers(assignments[a], u, capability, t)

CanAct(u, capability, t) ==
  \/ HasDirectScope(u, capability)
  \/ \E a \in Assignments :
       /\ Exists(a)
       /\ assignments[a].isActive
       /\ assignments[a].effectiveFrom <= today
       /\ today < assignments[a].effectiveTo
       /\ Covers(assignments[a], u, capability, t)
=============================================================================
