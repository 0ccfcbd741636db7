---------------------------- MODULE LeaveRequests ----------------------------
(***************************************************************************)
(* LeaveService: the Paper-first leave workflow of the NestJS API.         *)
(*                                                                         *)
(* Every handler has two halves.  The first reads the request row and      *)
(* checks scope, ownership, status and authority outside any transaction.  *)
(* The second is a transaction that updates the row only where status and  *)
(* version are still those read (updateMany ... count = 1), and appends    *)
(* the revision, audit, paper-result and outbox rows.  The update is the   *)
(* transaction's first statement and locks the row until the commit, so    *)
(* the transaction is one step.  createDraft is different: its transaction *)
(* begins with a non-locking read of the overlapping requests and only     *)
(* then inserts, so it is two steps.                                       *)
(*                                                                         *)
(* Delegated authority comes from DelegatedApprovers, whose actions        *)
(* interleave with the handlers'.                                          *)
(***************************************************************************)
EXTENDS DelegatedApprovers, Sequences

CONSTANTS
  Leaves,         \* identifiers of leave request rows
  Employees,
  NoEmployee,     \* the account is mapped to no employee
  EmployeeOf,     \* the employee each account is mapped to
  Memberships,    \* employment: employee, tenant, first and last date
  LastLeaveDate,  \* bound: the last date a leave may name
  CountedDays,    \* days the leave rules count in a range (see LeaveRules)
  NoForm,         \* a leave request row that does not exist
  Calls           \* slots for leave handlers in progress

LeaveDates == 1 .. LastLeaveDate

(* The rules never count more days than the calendar has; days are whole.    *)
DayCounts == 0 .. LastLeaveDate

Statuses ==
  { "DRAFT", "SUBMITTED", "PAPER_APPROVED", "PAPER_REJECTED", "CANCELLED", "VOIDED" }

(* The statuses that block an overlapping request.                           *)
ActiveStatuses == { "DRAFT", "SUBMITTED", "PAPER_APPROVED" }

PaperResults == { "PAPER_APPROVED", "PAPER_REJECTED" }

(* What createDraft stores and nothing changes afterwards.                   *)
Form ==
  [ employee : Employees, tenant : Tenants,
    startsOn : LeaveDates, endsOn : LeaveDates, requestedDays : DayCounts ]

ASSUME LeaveAssumption ==
  /\ LastLeaveDate \in Nat
  /\ NoEmployee \notin Employees
  /\ EmployeeOf \in [Users -> Employees \cup {NoEmployee}]
  /\ Memberships \subseteq [ employee : Employees, tenant : Tenants,
                             effectiveFrom : LeaveDates, effectiveTo : LeaveDates ]
  /\ CountedDays \in [LeaveDates \X LeaveDates -> DayCounts]

CreateCall == [ op : {"create"}, user : Users, form : Form, seen : SUBSET Leaves ]

(* lent is not the code's: the assignments that were in force when the       *)
(* handler checked the authority of its user.                                *)
ChangeCall ==
  [ op : {"submit", "paper", "cancel", "void"}, user : Users, leave : Leaves,
    from : Statuses, version : Nat, to : Statuses, approvedDays : DayCounts,
    lent : SUBSET Assignments ]

ASSUME LeaveSentinels ==
  /\ NoForm \notin Form
  /\ Idle \notin CreateCall \cup ChangeCall

VARIABLES
  form,          \* the immutable columns of each leave request
  status,        \* its status column ("NONE" before the row exists)
  version,       \* its version column (0 before the row exists)
  approvedDays,  \* its approvedDays column (0 is the source's null)
  effective,     \* whether effectiveAt is set
  revisions,     \* LeaveRequestRevision rows
  paperResults,  \* LeavePaperResult rows of each leave, oldest first
  outbox,        \* OutboxEvent rows of each leave, oldest first
  auditRows,     \* how many AuditEvent rows each leave has
  call,          \* what each handler in progress has read
  seen           \* history: the rows the overlap check of each leave read

rowVars == << form, status, version, approvedDays, effective, seen >>
trailVars == << revisions, paperResults, outbox, auditRows >>
leaveVars == << rowVars, trailVars, call >>
vars == << leaveVars, delegationVars >>

Init ==
  /\ DelegationInit
  /\ form = [l \in Leaves |-> NoForm]
  /\ status = [l \in Leaves |-> "NONE"]
  /\ version = [l \in Leaves |-> 0]
  /\ approvedDays = [l \in Leaves |-> 0]
  /\ effective = [l \in Leaves |-> FALSE]
  /\ revisions = {}
  /\ paperResults = [l \in Leaves |-> << >>]
  /\ outbox = [l \in Leaves |-> << >>]
  /\ auditRows = [l \in Leaves |-> 0]
  /\ call = [c \in Calls |-> Idle]
  /\ seen = [l \in Leaves |-> {}]

Created(l) == form[l] # NoForm

(***************************************************************************)
(* getRequestForUser and assertOwner.  A user without the permission may   *)
(* still look up a request of the user's own tenants to record a paper     *)
(* result or void it: assertCanAct decides then.                           *)
(***************************************************************************)
LookupScope(u, permission) ==
  LET scope == ScopeForPermission(GrantsOf[u], permission)
  IN  IF scope = "none" /\ permission \in DelegatedCapabilities THEN "tenant" ELSE scope

InScope(u, permission, f) ==
  LET scope == LookupScope(u, permission)
  IN  \/ scope = "self" /\ f.employee = EmployeeOf[u]
      \/ scope \in {"tenant", "affiliation"} /\ f.tenant \in TenantWorkspaces[u]
      \/ scope = "affiliation" /\ AffiliationOf[f.tenant] \in AffiliationWorkspaces[u]

CanRead(u, permission, l) == Created(l) /\ InScope(u, permission, form[l])

Owns(u, f) == f.employee = EmployeeOf[u]

(***************************************************************************)
(* createDraft.                                                            *)
(***************************************************************************)
CoveredByMembership(f) ==
  \E m \in Memberships :
    /\ m.employee = f.employee
    /\ m.tenant = f.tenant
    /\ m.effectiveFrom <= f.startsOn
    /\ f.endsOn <= m.effectiveTo

Overlap(f, g) ==
  /\ f.employee = g.employee
  /\ f.startsOn <= g.endsOn
  /\ g.startsOn <= f.endsOn

Active(l) == status[l] \in ActiveStatuses

(* Mutant: the overlap check forgets approved requests.                      *)
BeginCreateDraftOverApproved(c, u, f) ==
  /\ call[c] = Idle
  /\ HasPermission(GrantsOf[u], "leave.request.create")
  /\ f.tenant \in TenantWorkspaces[u]
  /\ Owns(u, f)
  /\ f.startsOn <= f.endsOn
  /\ CoveredByMembership(f)
  /\ f.requestedDays = CountedDays[<< f.startsOn, f.endsOn >>]
  /\ f.requestedDays > 0
  /\ \A l \in Leaves : ~(status[l] \in {"DRAFT", "SUBMITTED"} /\ Overlap(form[l], f))
  /\ call' = [call EXCEPT ![c] =
                [op |-> "create", user |-> u, form |-> f,
                 seen |-> {l \in Leaves : Created(l)}]]
  /\ UNCHANGED << rowVars, trailVars >>

(* The checks, ended by the read of overlapping requests that opens the      *)
(* transaction.                                                              *)
BeginCreateDraft(c, u, f) ==
  /\ call[c] = Idle
  /\ HasPermission(GrantsOf[u], "leave.request.create")
  /\ f.tenant \in TenantWorkspaces[u]
  /\ Owns(u, f)
  /\ f.startsOn <= f.endsOn
  /\ CoveredByMembership(f)
  /\ f.requestedDays = CountedDays[<< f.startsOn, f.endsOn >>]
  /\ f.requestedDays > 0
  /\ \A l \in Leaves : ~(Active(l) /\ Overlap(form[l], f))
  /\ call' = [call EXCEPT ![c] =
                [op |-> "create", user |-> u, form |-> f,
                 seen |-> {l \in Leaves : Created(l)}]]
  /\ UNCHANGED << rowVars, trailVars >>

(* The inserts and the commit.                                               *)
CommitCreateDraft(c) ==
  /\ call[c] # Idle
  /\ call[c].op = "create"
  /\ \E l \in Leaves :
       /\ ~Created(l)
       /\ form' = [form EXCEPT ![l] = call[c].form]
       /\ status' = [status EXCEPT ![l] = "DRAFT"]
       /\ version' = [version EXCEPT ![l] = 1]
       /\ seen' = [seen EXCEPT ![l] = call[c].seen]
       /\ revisions' = revisions \cup
            {[leave |-> l, revision |-> 1, status |-> "DRAFT", by |-> call[c].user,
              lent |-> {}]}
       /\ auditRows' = [auditRows EXCEPT ![l] = @ + 1]
  /\ call' = [call EXCEPT ![c] = Idle]
  /\ UNCHANGED << approvedDays, effective, paperResults, outbox >>

(***************************************************************************)
(* The reading halves of the four status changes.  Those that checked an   *)
(* authority keep, for the properties, which assignments were in force.    *)
(***************************************************************************)
InForce ==
  {a \in Assignments :
     /\ Exists(a)
     /\ assignments[a].isActive
     /\ assignments[a].effectiveFrom <= today
     /\ today < assignments[a].effectiveTo}

Remember(c, op, u, l, to, days, lent) ==
  /\ call' = [call EXCEPT ![c] =
                [op |-> op, user |-> u, leave |-> l, from |-> status[l],
                 version |-> version[l], to |-> to, approvedDays |-> days,
                 lent |-> lent]]
  /\ UNCHANGED << rowVars, trailVars >>

BeginSubmit(c, u, l) ==
  /\ call[c] = Idle
  /\ HasPermission(GrantsOf[u], "leave.request.submit")
  /\ CanRead(u, "leave.request.read", l)
  /\ Owns(u, form[l])
  /\ status[l] = "DRAFT"
  /\ Remember(c, "submit", u, l, "SUBMITTED", 0, {})

(* Mutant: the owner may cancel an approved leave.                           *)
BeginCancelApproved(c, u, l) ==
  /\ call[c] = Idle
  /\ HasPermission(GrantsOf[u], "leave.request.cancel")
  /\ CanRead(u, "leave.request.read", l)
  /\ Owns(u, form[l])
  /\ status[l] \in ActiveStatuses
  /\ Remember(c, "cancel", u, l, "CANCELLED", 0, {})

BeginCancel(c, u, l) ==
  /\ call[c] = Idle
  /\ HasPermission(GrantsOf[u], "leave.request.cancel")
  /\ CanRead(u, "leave.request.read", l)
  /\ Owns(u, form[l])
  /\ status[l] \in {"DRAFT", "SUBMITTED"}
  /\ Remember(c, "cancel", u, l, "CANCELLED", 0, {})

(* Mutant: the approved days are not bounded by the requested days.          *)
BeginPaperResultUnbounded(c, u, l, result, days) ==
  /\ call[c] = Idle
  /\ CanRead(u, "leave.paper-decision.record", l)
  /\ status[l] = "SUBMITTED"
  /\ CanAct(u, "leave.paper-decision.record", form[l].tenant)
  /\ ~Owns(u, form[l])
  /\ IF result = "PAPER_APPROVED" THEN days > 0 ELSE days = 0
  /\ Remember(c, "paper", u, l, result, days, InForce)

BeginPaperResult(c, u, l, result, days) ==
  /\ call[c] = Idle
  /\ CanRead(u, "leave.paper-decision.record", l)
  /\ status[l] = "SUBMITTED"
  /\ CanAct(u, "leave.paper-decision.record", form[l].tenant)
  /\ ~Owns(u, form[l])
  /\ IF result = "PAPER_APPROVED"
     THEN days \in 1 .. form[l].requestedDays
     ELSE days = 0
  /\ Remember(c, "paper", u, l, result, days, InForce)

(* Mutant: void does not compare the owner with the account.                 *)
BeginVoidOwn(c, u, l) ==
  /\ call[c] = Idle
  /\ CanRead(u, "leave.request.void", l)
  /\ status[l] = "PAPER_APPROVED"
  /\ CanAct(u, "leave.request.void", form[l].tenant)
  /\ Remember(c, "void", u, l, "VOIDED", 0, InForce)

BeginVoid(c, u, l) ==
  /\ call[c] = Idle
  /\ CanRead(u, "leave.request.void", l)
  /\ status[l] = "PAPER_APPROVED"
  /\ CanAct(u, "leave.request.void", form[l].tenant)
  /\ ~Owns(u, form[l])
  /\ Remember(c, "void", u, l, "VOIDED", 0, InForce)

(***************************************************************************)
(* The writing halves.  StillAsRead is the where clause of updateMany; the *)
(* unique key (leaveRequestId, revision) would roll the transaction back.  *)
(***************************************************************************)
StillAsRead(k) == status[k.leave] = k.from /\ version[k.leave] = k.version

RevisionIsFree(l, n) == \A r \in revisions : ~(r.leave = l /\ r.revision = n)

(* Mutants: the version column is left alone; the update names the row only  *)
(* by its id and counts on from whatever version it meets.                   *)
WriteChangeKeepingVersion(c, op) ==
  LET k == call[c]
  IN  /\ k # Idle
      /\ k.op = op
      /\ StillAsRead(k)
      /\ RevisionIsFree(k.leave, k.version + 1)
      /\ status' = [status EXCEPT ![k.leave] = k.to]
      /\ revisions' = revisions \cup
           {[leave |-> k.leave, revision |-> k.version + 1, status |-> k.to,
             by |-> k.user, lent |-> k.lent]}
      /\ auditRows' = [auditRows EXCEPT ![k.leave] = @ + 1]
      /\ call' = [call EXCEPT ![c] = Idle]
      /\ UNCHANGED << form, seen, version >>

WriteChangeById(c, op) ==
  LET k == call[c]
  IN  /\ k # Idle
      /\ k.op = op
      /\ status' = [status EXCEPT ![k.leave] = k.to]
      /\ version' = [version EXCEPT ![k.leave] = @ + 1]
      /\ revisions' = revisions \cup
           {[leave |-> k.leave, revision |-> version[k.leave] + 1,
             status |-> k.to, by |-> k.user, lent |-> k.lent]}
      /\ auditRows' = [auditRows EXCEPT ![k.leave] = @ + 1]
      /\ call' = [call EXCEPT ![c] = Idle]
      /\ UNCHANGED << form, seen >>

WriteChange(c, op) ==
  LET k == call[c]
  IN  /\ k # Idle
      /\ k.op = op
      /\ StillAsRead(k)
      /\ RevisionIsFree(k.leave, k.version + 1)
      /\ status' = [status EXCEPT ![k.leave] = k.to]
      /\ version' = [version EXCEPT ![k.leave] = @ + 1]
      /\ revisions' = revisions \cup
           {[leave |-> k.leave, revision |-> k.version + 1, status |-> k.to,
             by |-> k.user, lent |-> k.lent]}
      /\ auditRows' = [auditRows EXCEPT ![k.leave] = @ + 1]
      /\ call' = [call EXCEPT ![c] = Idle]
      /\ UNCHANGED << form, seen >>

CommitSubmit(c) ==
  /\ WriteChange(c, "submit")
  /\ UNCHANGED << approvedDays, effective, paperResults, outbox >>

CommitCancel(c) ==
  /\ WriteChange(c, "cancel")
  /\ UNCHANGED << approvedDays, effective, paperResults, outbox >>

CommitPaperResult(c) ==
  LET k == call[c]
  IN  /\ WriteChange(c, "paper")
      /\ approvedDays' = [approvedDays EXCEPT ![k.leave] = k.approvedDays]
      /\ effective' = [effective EXCEPT ![k.leave] = (k.to = "PAPER_APPROVED")]
      /\ paperResults' = [paperResults EXCEPT ![k.leave] =
           Append(@, [result |-> k.to, approvedDays |-> k.approvedDays, by |-> k.user])]
      /\ outbox' = [outbox EXCEPT ![k.leave] = Append(@, "LeavePaperResultRecorded")]

(* Mutant: the new status is stored where the event's name belongs.          *)
CommitVoidMislabelled(c) ==
  /\ WriteChange(c, "void")
  /\ outbox' = [outbox EXCEPT ![call[c].leave] = Append(@, "VOIDED")]
  /\ UNCHANGED << approvedDays, effective, paperResults >>

CommitVoid(c) ==
  /\ WriteChange(c, "void")
  /\ outbox' = [outbox EXCEPT ![call[c].leave] = Append(@, "LeaveVoided")]
  /\ UNCHANGED << approvedDays, effective, paperResults >>

(* The update matched no row, the database failed, or the process died: the  *)
(* transaction leaves nothing behind.                                        *)
AbandonCall(c) ==
  /\ call[c] # Idle
  /\ call' = [call EXCEPT ![c] = Idle]
  /\ UNCHANGED << rowVars, trailVars >>

LeaveNext == \E c \in Calls :
  \/ \E u \in Users, f \in Form : BeginCreateDraft(c, u, f)
  \/ CommitCreateDraft(c)
  \/ \E u \in Users, l \in Leaves : BeginSubmit(c, u, l)
  \/ CommitSubmit(c)
  \/ \E u \in Users, l \in Leaves : BeginCancel(c, u, l)
  \/ CommitCancel(c)
  \/ \E u \in Users, l \in Leaves, result \in PaperResults, days \in DayCounts :
       BeginPaperResult(c, u, l, result, days)
  \/ CommitPaperResult(c)
  \/ \E u \in Users, l \in Leaves : BeginVoid(c, u, l)
  \/ CommitVoid(c)
  \/ AbandonCall(c)

Next ==
  \/ LeaveNext /\ UNCHANGED delegationVars
  \/ DelegationNext /\ UNCHANGED leaveVars

Spec == Init /\ [][Next]_vars
-----------------------------------------------------------------------------
(***************************************************************************)
(* Properties.                                                             *)
(***************************************************************************)
Revision ==
  [ leave : Leaves, revision : Nat, status : Statuses, by : Users,
    lent : SUBSET Assignments ]

PaperRow ==
  [ result : PaperResults, approvedDays : DayCounts, by : Users ]

(* The types of the columns, of the appended rows and of the handlers.       *)
TypeOK ==
  /\ DelegationTypeOK
  /\ form \in [Leaves -> Form \cup {NoForm}]
  /\ status \in [Leaves -> Statuses \cup {"NONE"}]
  /\ version \in [Leaves -> Nat]
  /\ approvedDays \in [Leaves -> DayCounts]
  /\ effective \in [Leaves -> BOOLEAN]
  /\ revisions \subseteq Revision
  /\ paperResults \in [Leaves -> Seq(PaperRow)]
  /\ outbox \in [Leaves -> Seq({"LeavePaperResultRecorded", "LeaveVoided"})]
  /\ auditRows \in [Leaves -> Nat]
  /\ call \in [Calls -> CreateCall \cup ChangeCall \cup {Idle}]
  /\ seen \in [Leaves -> SUBSET Leaves]

RevisionsOf(l) == {r \in revisions : r.leave = l}

(* However handlers interleave, the revision rows of a leave are numbered    *)
(* 1..version without gap or duplicate, the last one carries the row's       *)
(* current status, and every version left one audit row: no transition of    *)
(* submit, recordPaperResult, cancel or void is lost, doubled or written     *)
(* over a row that another handler changed after it was read.                *)
RevisionLogExact ==
  \A l \in Leaves :
    /\ \A n \in 1 .. version[l] : \E r \in RevisionsOf(l) : r.revision = n
    /\ \A r \in RevisionsOf(l) :
         /\ r.revision \in 1 .. version[l]
         /\ r.revision = version[l] => r.status = status[l]
         /\ \A q \in RevisionsOf(l) : q.revision = r.revision => q = r
    /\ auditRows[l] = version[l]

(* The statuses in which a paper decision has been recorded.                 *)
Decided(l) == status[l] \in {"PAPER_APPROVED", "PAPER_REJECTED", "VOIDED"}

(* The paper result, the row's columns and the outbox of one leave agree.    *)
PaperTrail(l) ==
  IF Decided(l)
  THEN /\ Len(paperResults[l]) = 1
       /\ paperResults[l][1].approvedDays = approvedDays[l]
       /\ effective[l] = (paperResults[l][1].result = "PAPER_APPROVED")
       /\ effective[l] = (status[l] # "PAPER_REJECTED")
       /\ IF effective[l]
          THEN approvedDays[l] \in 1 .. form[l].requestedDays
          ELSE approvedDays[l] = 0
       /\ outbox[l] = IF status[l] = "VOIDED"
                      THEN << "LeavePaperResultRecorded", "LeaveVoided" >>
                      ELSE << "LeavePaperResultRecorded" >>
  ELSE /\ paperResults[l] = << >>
       /\ outbox[l] = << >>
       /\ approvedDays[l] = 0
       /\ ~effective[l]

(* A leave gets at most one paper result, even when several recorders, the   *)
(* owner's cancel and a void race; the row's approvedDays and effectiveAt    *)
(* agree with that result, never exceed the requested days, and the outbox   *)
(* tells consumers the same story in the same order.                         *)
PaperTrailExact == \A l \in Leaves : PaperTrail(l)

(* The revisions that record or revoke a paper decision.                     *)
DecisionStatuses == PaperResults \cup {"VOIDED"}

(* UAT case LEAVE-006 by the revision log: whoever drafted, submitted or     *)
(* cancelled a leave is its employee, and whoever recorded its paper result  *)
(* or voided it is not, through whichever account and authority they acted.  *)
SeparationOfDuties ==
  \A r \in revisions : (r.status \in DecisionStatuses) = ~Owns(r.by, form[r.leave])

CapabilityFor(s) ==
  IF s = "VOIDED" THEN "leave.request.void" ELSE "leave.paper-decision.record"

Authorized(u, capability, t, lent) ==
  \/ HasDirectScope(u, capability)
  \/ \E a \in lent : Exists(a) /\ Covers(assignments[a], u, capability, t)

(* Nobody records a paper result or a void without a direct grant, or an     *)
(* assignment for that capability and that leave's tenant that had not been  *)
(* revoked and was within its dates when the handler checked it: what it     *)
(* read then is still what it decides on when it commits, although the       *)
(* assignment may be revoked, or its last date may begin, between the two.   *)
AuthorityWasHeld ==
  \A r \in revisions : r.status \in DecisionStatuses =>
    Authorized(r.by, CapabilityFor(r.status), form[r.leave].tenant, r.lent)

(* Two active requests of one employee overlap only when each one's overlap  *)
(* check ran before the other's insert was visible: the check of createDraft *)
(* misses nothing it could read, and no later transition revives a row.      *)
OverlapOnlyByRace ==
  \A l, m \in Leaves :
    (l # m /\ Active(l) /\ Active(m) /\ Overlap(form[l], form[m])) => l \notin seen[m]

(* The revision log read as a history of statuses.                           *)
History(l) ==
  [n \in 1 .. version[l] |->
     (CHOOSE r \in revisions : r.leave = l /\ r.revision = n).status]

Workflow == INSTANCE LeaveWorkflow WITH history <- [l \in Leaves |-> History(l)]

(* The revision log of every leave is an append-only walk of the lifecycle.  *)
RefinesWorkflow == Workflow!Spec

-----------------------------------------------------------------------------
(***************************************************************************)
(* The strengthening that makes the properties above inductive.            *)
(***************************************************************************)
CreateIsJustified(k) ==
  /\ Owns(k.user, k.form)
  /\ \A l \in k.seen : Created(l) /\ ~(Active(l) /\ Overlap(form[l], k.form))

ChangeIsJustified(k) ==
  /\ Created(k.leave)
  /\ << k.from, k.to >> \in Workflow!LegalMoves
  /\ k.op = "submit" => k.to = "SUBMITTED"
  /\ k.op = "cancel" => k.to = "CANCELLED"
  /\ k.op = "paper" => k.to \in PaperResults
  /\ k.op = "void" => k.to = "VOIDED"
  /\ (k.to \in DecisionStatuses) = ~Owns(k.user, form[k.leave])
  /\ k.to \in DecisionStatuses =>
       Authorized(k.user, CapabilityFor(k.to), form[k.leave].tenant, k.lent)
  /\ IF k.to = "PAPER_APPROVED"
     THEN k.approvedDays \in 1 .. form[k.leave].requestedDays
     ELSE k.approvedDays = 0

(* Between its two halves a handler holds a decision that other handlers     *)
(* cannot undermine: the move it will make is legal from the status it read, *)
(* by somebody entitled to it, within the requested days, and whatever a     *)
(* create saw still does not overlap it.                                     *)
PendingCallsJustified ==
  \A c \in Calls : call[c] # Idle =>
    IF call[c].op = "create" THEN CreateIsJustified(call[c]) ELSE ChangeIsJustified(call[c])

(* A row that does not exist has no status and no version, and no overlap    *)
(* check has seen it.                                                        *)
RowsExact ==
  \A l \in Leaves :
    /\ IF Created(l) THEN status[l] \in Statuses /\ version[l] > 0
                     ELSE status[l] = "NONE" /\ version[l] = 0
    /\ \A m \in seen[l] : Created(m)

Inv ==
  /\ TypeOK
  /\ PendingRevokesExist
  /\ RowsExact
  /\ PendingCallsJustified
  /\ RevisionLogExact
  /\ PaperTrailExact
  /\ SeparationOfDuties
  /\ AuthorityWasHeld
  /\ OverlapOnlyByRace
=============================================================================
