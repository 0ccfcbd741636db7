------------------------- MODULE LeaveRequestsProofs -------------------------
(***************************************************************************)
(* Proofs about LeaveRequests, for any sets of accounts, employees, leaves *)
(* and concurrent requests.  The steps of the handlers fall into four      *)
(* groups, and each preserves the invariant Inv for a reason of its own:   *)
(* a reading half (or a failure) changes only its own slot; createDraft's  *)
(* commit adds a row; a change's commit advances one row from exactly the  *)
(* state its handler read; delegation steps never remove an assignment.    *)
(***************************************************************************)
EXTENDS LeaveRequests, SequenceTheorems, TLAPS

AnyCall == CreateCall \cup ChangeCall

Justified(k) ==
  IF k.op = "create" THEN CreateIsJustified(k) ELSE ChangeIsJustified(k)

(* A step that changes nothing but one request slot.                         *)
OnlyCall(c, k) ==
  /\ call' = [call EXCEPT ![c] = k]
  /\ UNCHANGED << rowVars, trailVars, delegationVars >>

-----------------------------------------------------------------------------
(* Initially nothing exists, so nothing is wrong.                            *)
LEMMA InitInv == Init => Inv
<1> SUFFICES ASSUME Init PROVE Inv
  OBVIOUS
<1>1. TypeOK
  BY LeaveAssumption, DelegationAssumption
     DEF Init, DelegationInit, TypeOK, DelegationTypeOK, Dates, DayCounts
<1>2. RowsExact /\ PendingCallsJustified /\ PendingRevokesExist
  BY DEF Init, DelegationInit, RowsExact, PendingCallsJustified, PendingRevokesExist, Created
<1>3. RevisionLogExact
  BY DEF Init, RevisionLogExact, RevisionsOf
<1>4. PaperTrailExact
  BY DEF Init, PaperTrailExact, PaperTrail, Decided
<1>5. SeparationOfDuties /\ AuthorityWasHeld
  BY DEF Init, SeparationOfDuties, AuthorityWasHeld
<1>6. OverlapOnlyByRace
  BY DEF Init, OverlapOnlyByRace
<1> QED
  BY <1>1, <1>2, <1>3, <1>4, <1>5, <1>6 DEF Inv

-----------------------------------------------------------------------------
(* What the reading half of a change remembers is a justified change.        *)
LEMMA RememberJustified ==
  ASSUME Inv, NEW c \in Calls, NEW u \in Users, NEW l \in Leaves,
         NEW op \in {"submit", "paper", "cancel", "void"},
         NEW to \in Statuses, NEW days \in DayCounts, NEW lent \in SUBSET Assignments,
         status[l] \in Statuses,
         Created(l),
         << status[l], to >> \in Workflow!LegalMoves,
         op = "submit" => to = "SUBMITTED",
         op = "cancel" => to = "CANCELLED",
         op = "paper" => to \in PaperResults,
         op = "void" => to = "VOIDED",
         (to \in DecisionStatuses) = ~Owns(u, form[l]),
         to \in DecisionStatuses =>
           Authorized(u, CapabilityFor(to), form[l].tenant, lent),
         IF to = "PAPER_APPROVED" THEN days \in 1 .. form[l].requestedDays
                                  ELSE days = 0,
         Remember(c, op, u, l, to, days, lent), UNCHANGED delegationVars
  PROVE  \E k \in AnyCall : Justified(k) /\ OnlyCall(c, k)
<1> DEFINE k == [op |-> op, user |-> u, leave |-> l, from |-> status[l],
                 version |-> version[l], to |-> to, approvedDays |-> days,
                 lent |-> lent]
<1>1. k \in AnyCall
  BY DEF AnyCall, ChangeCall, Inv, TypeOK
<1>2. ChangeIsJustified(k)
  BY DEF ChangeIsJustified
<1>3. Justified(k)
  BY <1>2 DEF Justified
<1>4. OnlyCall(c, k)
  BY DEF Remember, OnlyCall
<1> QED
  BY <1>1, <1>3, <1>4

(* Whoever may act now holds a grant or an assignment in force now.          *)
LEMMA CanActIsAuthority ==
  ASSUME NEW u \in Users, NEW capability, NEW t, CanAct(u, capability, t)
  PROVE  Authorized(u, capability, t, InForce)
BY DEF CanAct, Authorized, InForce

(* The reading half of every handler leaves a justified call in its slot.    *)
LEMMA BeginStep ==
  ASSUME Inv, UNCHANGED delegationVars, NEW c \in Calls, NEW u \in Users,
         \/ \E f \in Form : BeginCreateDraft(c, u, f)
         \/ \E l \in Leaves : BeginSubmit(c, u, l)
         \/ \E l \in Leaves : BeginCancel(c, u, l)
         \/ \E l \in Leaves, result \in PaperResults, days \in DayCounts :
              BeginPaperResult(c, u, l, result, days)
         \/ \E l \in Leaves : BeginVoid(c, u, l)
  PROVE  \E k \in AnyCall : Justified(k) /\ OnlyCall(c, k)
<1>0. 0 \in DayCounts /\ {} \in SUBSET Assignments /\ InForce \in SUBSET Assignments
  BY LeaveAssumption DEF DayCounts, InForce
<1>1. CASE \E f \in Form : BeginCreateDraft(c, u, f)
  <2> PICK f \in Form : BeginCreateDraft(c, u, f)
    BY <1>1
  <2> DEFINE k == [op |-> "create", user |-> u, form |-> f,
                   seen |-> {l \in Leaves : Created(l)}]
  <2>1. k \in AnyCall
    BY DEF AnyCall, CreateCall
  <2>2. Owns(k.user, k.form)
    BY DEF BeginCreateDraft
  <2>3. ASSUME NEW l \in k.seen
        PROVE  Created(l) /\ ~(Active(l) /\ Overlap(form[l], k.form))
    BY DEF BeginCreateDraft
  <2>4. Justified(k)
    BY <2>2, <2>3 DEF Justified, CreateIsJustified
  <2>5. OnlyCall(c, k)
    BY DEF BeginCreateDraft, OnlyCall
  <2> QED
    BY <2>1, <2>4, <2>5
<1>2. CASE \E l \in Leaves : BeginSubmit(c, u, l)
  <2> PICK l \in Leaves : BeginSubmit(c, u, l)
    BY <1>2
  <2>1. /\ status[l] = "DRAFT" /\ Created(l) /\ Owns(u, form[l])
        /\ Remember(c, "submit", u, l, "SUBMITTED", 0, {})
    BY DEF BeginSubmit, CanRead
  <2> QED
    BY <1>0, <2>1, RememberJustified
       DEF Statuses, Workflow!LegalMoves, DecisionStatuses, PaperResults
<1>3. CASE \E l \in Leaves : BeginCancel(c, u, l)
  <2> PICK l \in Leaves : BeginCancel(c, u, l)
    BY <1>3
  <2>1. /\ status[l] \in {"DRAFT", "SUBMITTED"} /\ Created(l) /\ Owns(u, form[l])
        /\ Remember(c, "cancel", u, l, "CANCELLED", 0, {})
    BY DEF BeginCancel, CanRead
  <2> QED
    BY <1>0, <2>1, RememberJustified
       DEF Statuses, Workflow!LegalMoves, DecisionStatuses, PaperResults
<1>4. CASE \E l \in Leaves, result \in PaperResults, days \in DayCounts :
             BeginPaperResult(c, u, l, result, days)
  <2> PICK l \in Leaves, result \in PaperResults, days \in DayCounts :
             BeginPaperResult(c, u, l, result, days)
    BY <1>4
  <2>1. /\ status[l] = "SUBMITTED" /\ Created(l) /\ ~Owns(u, form[l])
        /\ IF result = "PAPER_APPROVED" THEN days \in 1 .. form[l].requestedDays
                                        ELSE days = 0
        /\ CanAct(u, "leave.paper-decision.record", form[l].tenant)
        /\ Remember(c, "paper", u, l, result, days, InForce)
    BY DEF BeginPaperResult, CanRead
  <2>2. Authorized(u, CapabilityFor(result), form[l].tenant, InForce)
    BY <2>1, CanActIsAuthority DEF CapabilityFor, PaperResults
  <2> QED
    BY <1>0, <2>1, <2>2, RememberJustified
       DEF Statuses, Workflow!LegalMoves, DecisionStatuses, PaperResults
<1>5. CASE \E l \in Leaves : BeginVoid(c, u, l)
  <2> PICK l \in Leaves : BeginVoid(c, u, l)
    BY <1>5
  <2>1. /\ status[l] = "PAPER_APPROVED" /\ Created(l) /\ ~Owns(u, form[l])
        /\ CanAct(u, "leave.request.void", form[l].tenant)
        /\ Remember(c, "void", u, l, "VOIDED", 0, InForce)
    BY DEF BeginVoid, CanRead
  <2>2. Authorized(u, CapabilityFor("VOIDED"), form[l].tenant, InForce)
    BY <2>1, CanActIsAuthority DEF CapabilityFor
  <2> QED
    BY <1>0, <2>1, <2>2, RememberJustified
       DEF Statuses, Workflow!LegalMoves, DecisionStatuses, PaperResults
<1> QED
  BY <1>1, <1>2, <1>3, <1>4, <1>5

-----------------------------------------------------------------------------
(* The invariant about pending calls, slot by slot: after a step, whatever   *)
(* call a slot holds is justified in the new state.                          *)
LEMMA PendingByCall ==
  ASSUME TypeOK',
         \A d \in Calls, j \in AnyCall : call'[d] = j => Justified(j)'
  PROVE  PendingCallsJustified'
<1> SUFFICES ASSUME NEW d \in Calls, call'[d] # Idle
             PROVE  (IF call[d].op = "create" THEN CreateIsJustified(call[d])
                                              ELSE ChangeIsJustified(call[d]))'
  BY DEF PendingCallsJustified
<1>1. PICK j \in AnyCall : j = call'[d]
  BY DEF TypeOK, AnyCall
<1>2. Justified(j)'
  BY <1>1
<1>3. CASE j.op = "create"
  <2>1. CreateIsJustified(j)'
    BY <1>2, <1>3 DEF Justified
  <2> QED
    BY <1>1, <1>3, <2>1 DEF CreateIsJustified
<1>4. CASE j.op # "create"
  <2>1. ChangeIsJustified(j)'
    BY <1>2, <1>4 DEF Justified
  <2> QED
    BY <1>1, <1>4, <2>1 DEF ChangeIsJustified
<1> QED
  BY <1>3, <1>4

(* A step that only fills or empties a request slot preserves the invariant  *)
(* when what it leaves in the slot is justified.                             *)
LEMMA OnlyCallInv ==
  ASSUME Inv, NEW c \in Calls, NEW k \in AnyCall \cup {Idle},
         k # Idle => Justified(k), OnlyCall(c, k)
  PROVE  Inv'
<1> USE DEF OnlyCall, rowVars, trailVars, delegationVars
<1>1. TypeOK'
  BY DEF Inv, TypeOK, DelegationTypeOK, AnyCall
<1>2. RowsExact'
  BY DEF Inv, RowsExact, Created
<1>3. PendingCallsJustified'
  <2> SUFFICES ASSUME NEW d \in Calls, NEW j \in AnyCall, call'[d] = j
               PROVE  Justified(j)'
    BY <1>1, PendingByCall
  <2>1. Justified(j)
    BY LeaveSentinels DEF Inv, TypeOK, PendingCallsJustified, Justified, AnyCall
  <2>2. CreateIsJustified(j) => CreateIsJustified(j)'
    BY DEF CreateIsJustified, Created, Active
  <2>3. ChangeIsJustified(j) => ChangeIsJustified(j)'
    BY DEF ChangeIsJustified, Created, Authorized, Exists, Covers
  <2> QED
    BY <2>1, <2>2, <2>3 DEF Justified
<1>4. RevisionLogExact'
  BY DEF Inv, RevisionLogExact, RevisionsOf
<1>5. PaperTrailExact'
  BY DEF Inv, PaperTrailExact, PaperTrail, Decided
<1>6. SeparationOfDuties'
  BY DEF Inv, SeparationOfDuties
<1>7. AuthorityWasHeld'
  BY DEF Inv, AuthorityWasHeld, Authorized, Exists, Covers
<1>8. OverlapOnlyByRace'
  BY DEF Inv, OverlapOnlyByRace, Active
<1>9. PendingRevokesExist'
  BY DEF Inv, PendingRevokesExist, Exists
<1> QED
  BY <1>1, <1>2, <1>3, <1>4, <1>5, <1>6, <1>7, <1>8, <1>9 DEF Inv

-----------------------------------------------------------------------------
(* The commit of createDraft adds a row that no handler has seen.            *)
LEMMA CommitCreateDraftInv ==
  ASSUME Inv, NEW c \in Calls, CommitCreateDraft(c), UNCHANGED delegationVars
  PROVE  Inv'
<1> DEFINE k == call[c]
<1>0. k \in CreateCall /\ CreateIsJustified(k)
  BY DEF CommitCreateDraft, Inv, TypeOK, PendingCallsJustified, CreateCall, ChangeCall
<1> PICK l \in Leaves :
      /\ ~Created(l)
      /\ form' = [form EXCEPT ![l] = k.form]
      /\ status' = [status EXCEPT ![l] = "DRAFT"]
      /\ version' = [version EXCEPT ![l] = 1]
      /\ seen' = [seen EXCEPT ![l] = k.seen]
      /\ revisions' = revisions \cup
           {[leave |-> l, revision |-> 1, status |-> "DRAFT", by |-> k.user,
             lent |-> {}]}
      /\ auditRows' = [auditRows EXCEPT ![l] = @ + 1]
  BY DEF CommitCreateDraft
<1>1. /\ call' = [call EXCEPT ![c] = Idle]
      /\ UNCHANGED << approvedDays, effective, paperResults, outbox,
                      assignments, adminCall, today >>
  BY DEF CommitCreateDraft, delegationVars
<1>2. /\ status[l] = "NONE" /\ version[l] = 0 /\ auditRows[l] = 0
      /\ RevisionsOf(l) = {}
  <2>1. status[l] = "NONE" /\ version[l] = 0
    BY DEF Inv, RowsExact
  <2>2. auditRows[l] = version[l] /\ \A r \in RevisionsOf(l) : r.revision \in 1 .. version[l]
    BY DEF Inv, RevisionLogExact
  <2> QED
    BY <2>1, <2>2
<1>3. k.user \in Users /\ k.form \in Form /\ k.seen \subseteq Leaves
      /\ k.form # NoForm
  BY <1>0, LeaveSentinels DEF CreateCall
<1>4. /\ form'[l] = k.form /\ Created(l)' /\ status'[l] = "DRAFT" /\ version'[l] = 1
      /\ seen'[l] = k.seen /\ auditRows'[l] = 1
      /\ \A m \in Leaves \ {l} :
           /\ form'[m] = form[m] /\ status'[m] = status[m] /\ version'[m] = version[m]
           /\ seen'[m] = seen[m] /\ auditRows'[m] = auditRows[m]
           /\ Created(m)' = Created(m) /\ Active(m)' = Active(m)
  BY <1>2, <1>3 DEF Inv, TypeOK, Created, Active
<1>5. TypeOK'
  <2>1. "DRAFT" \in Statuses
    BY DEF Statuses
  <2> QED
    BY <1>1, <1>3, <2>1 DEF Inv, TypeOK, DelegationTypeOK, Revision
<1>6. RowsExact'
  <2> SUFFICES ASSUME NEW m \in Leaves
               PROVE  /\ IF Created(m)' THEN status'[m] \in Statuses /\ version'[m] > 0
                                        ELSE status'[m] = "NONE" /\ version'[m] = 0
                      /\ \A n \in seen'[m] : Created(n)'
    BY DEF RowsExact
  <2>1. CASE m = l
    BY <1>0, <1>3, <1>4, <2>1 DEF CreateIsJustified, Statuses, Created
  <2>2. CASE m # l
    BY <1>4, <2>2 DEF Inv, RowsExact, TypeOK
  <2> QED
    BY <2>1, <2>2
<1>7. PendingCallsJustified'
  <2> SUFFICES ASSUME NEW d \in Calls, NEW j \in AnyCall, call'[d] = j
               PROVE  Justified(j)'
    BY <1>5, PendingByCall
  <2>1. Justified(j)
    BY <1>1, LeaveSentinels DEF Inv, TypeOK, PendingCallsJustified, Justified, AnyCall
  <2>2. CASE j.op = "create"
    <3>1. j \in CreateCall /\ CreateIsJustified(j)
      BY <2>1, <2>2 DEF AnyCall, CreateCall, ChangeCall, Justified
    <3>2. \A m \in j.seen : m \in Leaves /\ m # l
      BY <3>1 DEF CreateIsJustified, CreateCall
    <3> QED
      BY <1>4, <2>2, <3>1, <3>2 DEF CreateIsJustified, Justified, Owns
  <2>3. CASE j.op # "create"
    <3>1. j \in ChangeCall /\ ChangeIsJustified(j)
      BY <2>1, <2>3 DEF AnyCall, CreateCall, ChangeCall, Justified
    <3>2. j.leave \in Leaves /\ j.leave # l
      BY <3>1 DEF ChangeIsJustified, ChangeCall
    <3> QED
      BY <1>1, <1>4, <2>3, <3>1, <3>2
         DEF ChangeIsJustified, Justified, Authorized, Exists, Covers, Owns
  <2> QED
    BY <2>2, <2>3
<1>8. RevisionLogExact'
  <2> SUFFICES ASSUME NEW m \in Leaves
               PROVE  /\ \A n \in 1 .. version'[m] : \E r \in RevisionsOf(m)' : r.revision = n
                      /\ \A r \in RevisionsOf(m)' :
                           /\ r.revision \in 1 .. version'[m]
                           /\ r.revision = version'[m] => r.status = status'[m]
                           /\ \A q \in RevisionsOf(m)' : q.revision = r.revision => q = r
                      /\ auditRows'[m] = version'[m]
    BY DEF RevisionLogExact
  <2>1. CASE m = l
    <3>1. RevisionsOf(m)' =
            {[leave |-> l, revision |-> 1, status |-> "DRAFT", by |-> k.user,
              lent |-> {}]}
      BY <1>2, <2>1 DEF RevisionsOf
    <3> QED
      BY <1>4, <2>1, <3>1
  <2>2. CASE m # l
    <3>1. RevisionsOf(m)' = RevisionsOf(m)
      BY <2>2 DEF RevisionsOf
    <3> QED
      BY <1>4, <2>2, <3>1 DEF Inv, RevisionLogExact
  <2> QED
    BY <2>1, <2>2
<1>9. PaperTrailExact'
  <2>1. ASSUME NEW m \in Leaves PROVE Decided(m)' = Decided(m) /\ (Decided(m) => m # l)
    BY <1>2, <1>4 DEF Decided
  <2> QED
    BY <1>1, <1>4, <2>1 DEF Inv, PaperTrailExact, PaperTrail
<1>10. SeparationOfDuties'
  <2>1. \A r \in revisions : r.leave # l /\ r.leave \in Leaves
    BY <1>2 DEF RevisionsOf, Inv, TypeOK, Revision
  <2>2. Owns(k.user, form'[l])
    BY <1>0, <1>4 DEF CreateIsJustified
  <2> QED
    BY <1>4, <2>1, <2>2 DEF Inv, SeparationOfDuties, DecisionStatuses, PaperResults, Owns
<1>11. AuthorityWasHeld'
  <2>1. \A r \in revisions : r.leave # l /\ r.leave \in Leaves
    BY <1>2 DEF RevisionsOf, Inv, TypeOK, Revision
  <2> QED
    BY <1>1, <1>4, <2>1
       DEF Inv, AuthorityWasHeld, Authorized, Exists, Covers,
           DecisionStatuses, PaperResults
<1>12. OverlapOnlyByRace'
  <2> SUFFICES ASSUME NEW m \in Leaves, NEW n \in Leaves, m # n, Active(m)', Active(n)',
                      Overlap(form'[m], form'[n])
               PROVE  m \notin seen'[n]
    BY DEF OverlapOnlyByRace
  <2>1. CASE n = l
    BY <1>0, <1>4, <2>1 DEF CreateIsJustified
  <2>2. CASE m = l
    BY <1>4, <2>2 DEF Inv, RowsExact
  <2>3. CASE m # l /\ n # l
    BY <1>4, <2>3 DEF Inv, OverlapOnlyByRace
  <2> QED
    BY <2>1, <2>2, <2>3
<1>13. PendingRevokesExist'
  BY <1>1 DEF Inv, PendingRevokesExist, Exists
<1> QED
  BY <1>5, <1>6, <1>7, <1>8, <1>9, <1>10, <1>11, <1>12, <1>13 DEF Inv

-----------------------------------------------------------------------------
(* The commit of a change advances one row from the state its handler read.  *)
(* What it does to the row and its trail, for every operation.               *)
LEMMA WriteChangeFacts ==
  ASSUME Inv, NEW c \in Calls, NEW op \in {"submit", "paper", "cancel", "void"},
         WriteChange(c, op)
  PROVE  LET k == call[c]
             l == k.leave
         IN  /\ k \in ChangeCall /\ ChangeIsJustified(k)
             /\ l \in Leaves /\ Created(l)
             /\ status[l] = k.from /\ version[l] = k.version
             /\ form' = form /\ seen' = seen
             /\ status'[l] = k.to /\ version'[l] = version[l] + 1
             /\ auditRows'[l] = auditRows[l] + 1
             /\ \A m \in Leaves \ {l} :
                  /\ status'[m] = status[m] /\ version'[m] = version[m]
                  /\ auditRows'[m] = auditRows[m]
             /\ revisions' = revisions \cup
                  {[leave |-> l, revision |-> version[l] + 1,
                    status |-> k.to, by |-> k.user, lent |-> k.lent]}
             /\ \A m \in Leaves : Active(m)' => Active(m)
<1> DEFINE k == call[c]
           l == k.leave
<1>1. k \in ChangeCall /\ ChangeIsJustified(k)
  BY DEF WriteChange, Inv, TypeOK, PendingCallsJustified, CreateCall, ChangeCall
<1>2. l \in Leaves /\ Created(l)
  BY <1>1 DEF ChangeCall, ChangeIsJustified
<1>3. status[l] = k.from /\ version[l] = k.version
  BY DEF WriteChange, StillAsRead
<1>4. /\ form' = form /\ seen' = seen
      /\ status' = [status EXCEPT ![l] = k.to]
      /\ version' = [version EXCEPT ![l] = @ + 1]
      /\ auditRows' = [auditRows EXCEPT ![l] = @ + 1]
      /\ revisions' = revisions \cup
           {[leave |-> l, revision |-> k.version + 1, status |-> k.to, by |-> k.user,
             lent |-> k.lent]}
  BY DEF WriteChange
<1>5. /\ status'[l] = k.to /\ version'[l] = version[l] + 1
      /\ auditRows'[l] = auditRows[l] + 1
      /\ \A m \in Leaves \ {l} :
           status'[m] = status[m] /\ version'[m] = version[m] /\ auditRows'[m] = auditRows[m]
  BY <1>2, <1>4 DEF Inv, TypeOK
<1>6. k.from \in ActiveStatuses
  BY <1>1 DEF ChangeIsJustified, Workflow!LegalMoves, ActiveStatuses
<1>7. \A m \in Leaves : Active(m)' => Active(m)
  BY <1>3, <1>5, <1>6 DEF Active
<1> QED
  BY <1>1, <1>2, <1>3, <1>4, <1>5, <1>7

(* Everything but the paper trail follows from those facts.                  *)
LEMMA WriteChangeInv ==
  ASSUME Inv, NEW c \in Calls, NEW op \in {"submit", "paper", "cancel", "void"},
         WriteChange(c, op), UNCHANGED delegationVars, TypeOK'
  PROVE  /\ RowsExact' /\ PendingCallsJustified' /\ RevisionLogExact'
         /\ SeparationOfDuties' /\ AuthorityWasHeld' /\ OverlapOnlyByRace'
<1> DEFINE k == call[c]
           l == k.leave
           new == [leave |-> l, revision |-> version[l] + 1, status |-> k.to,
                  by |-> k.user, lent |-> k.lent]
<1>1. /\ k \in ChangeCall /\ ChangeIsJustified(k)
      /\ l \in Leaves /\ Created(l)
      /\ status[l] = k.from /\ version[l] = k.version
      /\ form' = form /\ seen' = seen
      /\ status'[l] = k.to /\ version'[l] = version[l] + 1
      /\ auditRows'[l] = auditRows[l] + 1
      /\ \A m \in Leaves \ {l} :
           status'[m] = status[m] /\ version'[m] = version[m] /\ auditRows'[m] = auditRows[m]
      /\ revisions' = revisions \cup {new}
      /\ \A m \in Leaves : Active(m)' => Active(m)
  BY WriteChangeFacts
<1>2. k.to \in Statuses /\ version[l] \in Nat /\ k.user \in Users
  BY <1>1 DEF ChangeCall, Inv, TypeOK
<1>3. call' = [call EXCEPT ![c] = Idle] /\ assignments' = assignments
  BY DEF WriteChange, delegationVars
<1>4. RowsExact'
  BY <1>1, <1>2 DEF Inv, RowsExact, Created
<1>5. PendingCallsJustified'
  <2> SUFFICES ASSUME NEW d \in Calls, NEW j \in AnyCall, call'[d] = j
               PROVE  Justified(j)'
    BY PendingByCall
  <2>1. Justified(j)
    BY <1>3, LeaveSentinels DEF Inv, TypeOK, PendingCallsJustified, Justified, AnyCall
  <2>2. CASE j.op = "create"
    <3>1. j \in CreateCall /\ CreateIsJustified(j)
      BY <2>1, <2>2 DEF AnyCall, CreateCall, ChangeCall, Justified
    <3>2. \A m \in j.seen : m \in Leaves
      BY <3>1 DEF CreateCall
    <3> QED
      BY <1>1, <2>2, <3>1, <3>2 DEF CreateIsJustified, Justified, Created
  <2>3. CASE j.op # "create"
    BY <1>1, <1>3, <2>1, <2>3
       DEF ChangeIsJustified, Justified, Created, Authorized, Exists, Covers
  <2> QED
    BY <2>2, <2>3
<1>6. RevisionLogExact'
  <2> SUFFICES ASSUME NEW m \in Leaves
               PROVE  /\ \A n \in 1 .. version'[m] : \E r \in RevisionsOf(m)' : r.revision = n
                      /\ \A r \in RevisionsOf(m)' :
                           /\ r.revision \in 1 .. version'[m]
                           /\ r.revision = version'[m] => r.status = status'[m]
                           /\ \A q \in RevisionsOf(m)' : q.revision = r.revision => q = r
                      /\ auditRows'[m] = version'[m]
    BY DEF RevisionLogExact
  <2>0. /\ \A n \in 1 .. version[m] : \E r \in RevisionsOf(m) : r.revision = n
        /\ \A r \in RevisionsOf(m) :
             /\ r.revision \in 1 .. version[m]
             /\ r.revision = version[m] => r.status = status[m]
             /\ \A q \in RevisionsOf(m) : q.revision = r.revision => q = r
        /\ auditRows[m] = version[m]
        /\ version[m] \in Nat
    BY DEF Inv, RevisionLogExact, TypeOK
  <2>1. CASE m = l
    <3>1. RevisionsOf(m)' = RevisionsOf(m) \cup {new}
      BY <1>1, <2>1 DEF RevisionsOf
    <3>2. \A n \in 1 .. version'[m] : n \in 1 .. version[m] \/ n = new.revision
      BY <1>1, <2>0, <2>1
    <3>3. \A r \in RevisionsOf(m) : r.revision # new.revision
      BY <2>0, <2>1
    <3>4. \A n \in 1 .. version'[m] : \E r \in RevisionsOf(m)' : r.revision = n
      BY <2>0, <3>1, <3>2
    <3>5. ASSUME NEW r \in RevisionsOf(m)'
          PROVE  /\ r.revision \in 1 .. version'[m]
                 /\ r.revision = version'[m] => r.status = status'[m]
      <4>1. CASE r = new
        BY <1>1, <2>0, <2>1, <4>1
      <4>2. CASE r \in RevisionsOf(m)
        <5>1. r.revision \in 1 .. version[m]
          BY <2>0, <4>2
        <5>2. version'[m] = version[m] + 1
          BY <1>1, <2>1
        <5> QED
          BY <2>0, <5>1, <5>2
      <4> QED
        BY <3>1, <4>1, <4>2
    <3>6. \A r, q \in RevisionsOf(m)' : q.revision = r.revision => q = r
      BY <2>0, <3>1, <3>3
    <3>7. auditRows'[m] = version'[m]
      BY <1>1, <2>0, <2>1
    <3> QED
      BY <3>4, <3>5, <3>6, <3>7
  <2>2. CASE m # l
    <3>1. RevisionsOf(m)' = RevisionsOf(m)
      BY <1>1, <2>2 DEF RevisionsOf
    <3> QED
      BY <1>1, <2>0, <2>2, <3>1
  <2> QED
    BY <2>1, <2>2
<1>7. SeparationOfDuties'
  BY <1>1 DEF Inv, SeparationOfDuties, ChangeIsJustified
<1>8. AuthorityWasHeld'
  <2>1. \A u, capability, t, lent :
          Authorized(u, capability, t, lent) => Authorized(u, capability, t, lent)'
    BY <1>3 DEF Authorized, Exists, Covers
  <2> QED
    BY <1>1, <2>1 DEF Inv, AuthorityWasHeld, ChangeIsJustified
<1>9. OverlapOnlyByRace'
  BY <1>1 DEF Inv, OverlapOnlyByRace
<1> QED
  BY <1>4, <1>5, <1>6, <1>7, <1>8, <1>9

-----------------------------------------------------------------------------
(* Typing of the four commits.                                               *)
LEMMA WriteChangeTypes ==
  ASSUME Inv, NEW c \in Calls, UNCHANGED delegationVars,
         \/ CommitSubmit(c) \/ CommitCancel(c) \/ CommitPaperResult(c) \/ CommitVoid(c)
  PROVE  TypeOK'
<1>1. PICK op \in {"submit", "paper", "cancel", "void"} : WriteChange(c, op)
  BY DEF CommitSubmit, CommitCancel, CommitPaperResult, CommitVoid
<1> DEFINE k == call[c]
           l == k.leave
<1>2. /\ k \in ChangeCall /\ ChangeIsJustified(k) /\ l \in Leaves
  BY <1>1, WriteChangeFacts
<1>3. /\ k.to \in Statuses /\ k.version \in Nat /\ k.user \in Users
      /\ k.approvedDays \in DayCounts /\ k.lent \in SUBSET Assignments
  BY <1>2 DEF ChangeCall
<1>4. /\ form' \in [Leaves -> Form \cup {NoForm}]
      /\ status' \in [Leaves -> Statuses \cup {"NONE"}]
      /\ version' \in [Leaves -> Nat]
      /\ auditRows' \in [Leaves -> Nat]
      /\ revisions' \subseteq Revision
      /\ call' \in [Calls -> CreateCall \cup ChangeCall \cup {Idle}]
      /\ seen' \in [Leaves -> SUBSET Leaves]
      /\ DelegationTypeOK'
  <2>1. form' \in [Leaves -> Form \cup {NoForm}] /\ seen' \in [Leaves -> SUBSET Leaves]
    BY <1>1, <1>3 DEF WriteChange, Inv, TypeOK
  <2>2. status' \in [Leaves -> Statuses \cup {"NONE"}]
    BY <1>1, <1>3 DEF WriteChange, Inv, TypeOK
  <2>3. version' \in [Leaves -> Nat] /\ auditRows' \in [Leaves -> Nat]
    BY <1>1, <1>2, <1>3 DEF WriteChange, Inv, TypeOK
  <2>4. revisions' \subseteq Revision
    BY <1>1, <1>2, <1>3 DEF WriteChange, Inv, TypeOK, Revision
  <2>5. call' \in [Calls -> CreateCall \cup ChangeCall \cup {Idle}]
    BY <1>1 DEF WriteChange, Inv, TypeOK
  <2>6. DelegationTypeOK'
    BY DEF Inv, TypeOK, DelegationTypeOK, delegationVars
  <2> QED
    BY <2>1, <2>2, <2>3, <2>4, <2>5, <2>6
<1>5. /\ approvedDays' \in [Leaves -> DayCounts]
      /\ effective' \in [Leaves -> BOOLEAN]
  BY <1>3 DEF CommitSubmit, CommitCancel, CommitPaperResult, CommitVoid, Inv, TypeOK
<1>6. outbox' \in [Leaves -> Seq({"LeavePaperResultRecorded", "LeaveVoided"})]
  <2> DEFINE Event == {"LeavePaperResultRecorded", "LeaveVoided"}
  <2>1. outbox \in [Leaves -> Seq(Event)]
    BY DEF Inv, TypeOK
  <2>2. \/ outbox' = outbox
        \/ \E e \in Event : outbox' = [outbox EXCEPT ![l] = Append(@, e)]
    BY DEF CommitSubmit, CommitCancel, CommitPaperResult, CommitVoid
  <2> HIDE DEF Event
  <2>3. \A e \in Event : Append(outbox[l], e) \in Seq(Event)
    BY <1>2, <2>1, AppendProperties
  <2>4. outbox' \in [Leaves -> Seq(Event)]
    BY <2>1, <2>2, <2>3
  <2> QED
    BY <2>4 DEF Event
<1>7. paperResults' \in [Leaves -> Seq(PaperRow)]
  <2>1. CASE CommitPaperResult(c)
    <3>1. k.to \in PaperResults
      BY <1>2, <2>1 DEF CommitPaperResult, WriteChange, ChangeIsJustified
    <3>2. [result |-> k.to, approvedDays |-> k.approvedDays, by |-> k.user] \in PaperRow
      BY <1>3, <3>1 DEF PaperRow
    <3> QED
      <4> DEFINE row == [result |-> k.to, approvedDays |-> k.approvedDays, by |-> k.user]
      <4>1. paperResults \in [Leaves -> Seq(PaperRow)]
        BY DEF Inv, TypeOK
      <4>2. paperResults' = [paperResults EXCEPT ![l] = Append(@, row)]
        BY <2>1 DEF CommitPaperResult
      <4>3. row \in PaperRow
        BY <3>2
      <4> HIDE DEF row
      <4>4. Append(paperResults[l], row) \in Seq(PaperRow)
        BY <1>2, <4>1, <4>3, AppendProperties
      <4> QED
        BY <4>1, <4>2, <4>4
  <2>2. CASE ~CommitPaperResult(c)
    BY <2>2 DEF CommitSubmit, CommitCancel, CommitVoid, Inv, TypeOK
  <2> QED
    BY <2>1, <2>2
<1> QED
  BY <1>4, <1>5, <1>6, <1>7 DEF TypeOK
-----------------------------------------------------------------------------
(* A second element appended to a one-element sequence.                      *)
LEMMA AppendToOne ==
  ASSUME NEW x, NEW y
  PROVE  Append(<< x >>, y) = << x, y >>
<1> PICK S : x \in S /\ y \in S
  <2> WITNESS {x, y}
  <2> QED
    OBVIOUS
<1>1. << x >> \in Seq(S) /\ << x, y >> \in Seq(S)
  OBVIOUS
<1>2. Append(<< x >>, y) \in Seq(S) /\ Len(Append(<< x >>, y)) = 2
  BY <1>1, AppendProperties
<1>3. \A i \in 1 .. 2 : Append(<< x >>, y)[i] = << x, y >>[i]
  BY <1>1, AppendProperties
<1> QED
  BY <1>1, <1>2, <1>3, SeqEqual

(* The paper trail: only recordPaperResult and void touch it, each from the  *)
(* one status in which its effect is right.                                  *)
LEMMA PaperTrailStep ==
  ASSUME Inv, NEW c \in Calls, TypeOK',
         \/ CommitSubmit(c) \/ CommitCancel(c) \/ CommitPaperResult(c) \/ CommitVoid(c)
  PROVE  PaperTrailExact'
<1>1. PICK op \in {"submit", "paper", "cancel", "void"} : WriteChange(c, op)
  BY DEF CommitSubmit, CommitCancel, CommitPaperResult, CommitVoid
<1>0. PICK k \in ChangeCall, l \in Leaves : k = call[c] /\ l = k.leave
  BY <1>1, WriteChangeFacts
<1> DEFINE row == [result |-> k.to, approvedDays |-> k.approvedDays, by |-> k.user]
<1>2. /\ k \in ChangeCall /\ ChangeIsJustified(k)
      /\ l \in Leaves
      /\ status[l] = k.from /\ form' = form /\ status'[l] = k.to
      /\ \A m \in Leaves \ {l} : status'[m] = status[m]
  BY <1>0, <1>1, WriteChangeFacts
<1>3. PaperTrail(l)
  BY <1>2 DEF Inv, PaperTrailExact
<1>4. << k.from, k.to >> \in Workflow!LegalMoves
  BY <1>2 DEF ChangeIsJustified
<1>5. ASSUME NEW m \in Leaves, m # l PROVE PaperTrail(m)'
  <2>1. /\ paperResults'[m] = paperResults[m] /\ outbox'[m] = outbox[m]
        /\ approvedDays'[m] = approvedDays[m] /\ effective'[m] = effective[m]
    BY <1>0, <1>5 DEF CommitSubmit, CommitCancel, CommitPaperResult, CommitVoid, Inv, TypeOK
  <2>2. PaperTrail(m)
    BY DEF Inv, PaperTrailExact
  <2> QED
    BY <1>2, <1>5, <2>1, <2>2 DEF PaperTrail, Decided
<1>6. PaperTrail(l)'
  <2>0. /\ k.op = "submit" => k.to = "SUBMITTED"
        /\ k.op = "cancel" => k.to = "CANCELLED"
        /\ k.op = "paper" => k.to \in PaperResults
        /\ k.op = "void" => k.to = "VOIDED"
        /\ IF k.to = "PAPER_APPROVED" THEN k.approvedDays \in 1 .. form[l].requestedDays
                                      ELSE k.approvedDays = 0
    BY <1>0, <1>2 DEF ChangeIsJustified
  <2>1. CASE CommitSubmit(c) \/ CommitCancel(c)
    <3>0. k.op = "submit" \/ k.op = "cancel"
      BY <1>0, <2>1 DEF CommitSubmit, CommitCancel, WriteChange
    <3>1. k.to \in {"SUBMITTED", "CANCELLED"}
      BY <2>0, <3>0
    <3>2. ~Decided(l) /\ ~Decided(l)'
      BY <1>2, <1>4, <3>1 DEF Workflow!LegalMoves, Decided
    <3>3. UNCHANGED << approvedDays, effective, paperResults, outbox >>
      BY <2>1 DEF CommitSubmit, CommitCancel
    <3> QED
      BY <1>3, <3>2, <3>3 DEF PaperTrail
  <2>2. CASE CommitPaperResult(c)
    <3>0. k.op = "paper"
      BY <1>0, <2>2 DEF CommitPaperResult, WriteChange
    <3>1. k.to \in PaperResults
      BY <2>0, <3>0
    <3>2. ~Decided(l) /\ Decided(l)' /\ status'[l] \in PaperResults
      BY <1>2, <1>4, <3>1 DEF Workflow!LegalMoves, Decided, PaperResults
    <3>3. paperResults[l] = << >> /\ outbox[l] = << >>
      BY <1>3, <3>2 DEF PaperTrail
    <3>4. /\ approvedDays' = [approvedDays EXCEPT ![l] = k.approvedDays]
          /\ effective' = [effective EXCEPT ![l] = (k.to = "PAPER_APPROVED")]
          /\ paperResults' = [paperResults EXCEPT ![l] = Append(@, row)]
          /\ outbox' = [outbox EXCEPT ![l] = Append(@, "LeavePaperResultRecorded")]
      BY <1>0, <2>2 DEF CommitPaperResult
    <3>5. /\ approvedDays'[l] = k.approvedDays
          /\ effective'[l] = (k.to = "PAPER_APPROVED")
      BY <1>2, <3>4 DEF Inv, TypeOK
    <3>6. paperResults'[l] = << row >>
      <4> HIDE DEF row
      <4>1. paperResults'[l] = Append(paperResults[l], row)
        BY <1>2, <3>4 DEF Inv, TypeOK
      <4> QED
        BY <3>3, <4>1
    <3>7. outbox'[l] = << "LeavePaperResultRecorded" >>
      <4>1. outbox'[l] = Append(outbox[l], "LeavePaperResultRecorded")
        BY <1>2, <3>4 DEF Inv, TypeOK
      <4> QED
        BY <3>3, <4>1
    <3>8. /\ Len(paperResults'[l]) = 1
          /\ paperResults'[l][1].approvedDays = k.approvedDays
          /\ paperResults'[l][1].result = k.to
      BY <3>6
    <3>9. status'[l] = k.to /\ form' = form
      BY <1>2
    <3> QED
      BY <2>0, <3>1, <3>2, <3>5, <3>7, <3>8, <3>9 DEF PaperTrail, PaperResults
  <2>3. CASE CommitVoid(c)
    <3>0. k.op = "void"
      BY <1>0, <2>3 DEF CommitVoid, WriteChange
    <3>1. k.to = "VOIDED"
      BY <2>0, <3>0
    <3>2. status[l] = "PAPER_APPROVED" /\ Decided(l) /\ Decided(l)' /\ status'[l] = "VOIDED"
      BY <1>2, <1>4, <3>1 DEF Workflow!LegalMoves, Decided
    <3>3. outbox[l] = << "LeavePaperResultRecorded" >> /\ effective[l] = TRUE
      <4>1. effective[l] = (status[l] # "PAPER_REJECTED")
        BY <1>3, <3>2 DEF PaperTrail
      <4>2. outbox[l] = IF status[l] = "VOIDED"
                        THEN << "LeavePaperResultRecorded", "LeaveVoided" >>
                        ELSE << "LeavePaperResultRecorded" >>
        BY <1>3, <3>2 DEF PaperTrail
      <4> QED
        BY <3>2, <4>1, <4>2
    <3>4. /\ outbox' = [outbox EXCEPT ![l] = Append(@, "LeaveVoided")]
          /\ UNCHANGED << approvedDays, effective, paperResults >>
      BY <1>0, <2>3 DEF CommitVoid
    <3>5. outbox'[l] = Append(outbox[l], "LeaveVoided")
      BY <1>2, <3>4 DEF Inv, TypeOK
    <3>6. outbox'[l] = << "LeavePaperResultRecorded", "LeaveVoided" >>
      <4>1. Append(<< "LeavePaperResultRecorded" >>, "LeaveVoided")
              = << "LeavePaperResultRecorded", "LeaveVoided" >>
        BY AppendToOne
      <4> QED
        BY <3>3, <3>5, <4>1
    <3> QED
      BY <1>2, <1>3, <3>2, <3>3, <3>4, <3>6 DEF PaperTrail
  <2> QED
    BY <2>1, <2>2, <2>3
<1> QED
  BY <1>5, <1>6 DEF PaperTrailExact

(* Every commit of a change preserves the invariant.                         *)
LEMMA ChangeCommitInv ==
  ASSUME Inv, NEW c \in Calls, UNCHANGED delegationVars,
         \/ CommitSubmit(c) \/ CommitCancel(c) \/ CommitPaperResult(c) \/ CommitVoid(c)
  PROVE  Inv'
<1>1. PICK op \in {"submit", "paper", "cancel", "void"} : WriteChange(c, op)
  BY DEF CommitSubmit, CommitCancel, CommitPaperResult, CommitVoid
<1>2. TypeOK'
  BY WriteChangeTypes
<1>3. PaperTrailExact'
  BY <1>2, PaperTrailStep
<1>4. /\ RowsExact' /\ PendingCallsJustified' /\ RevisionLogExact'
      /\ SeparationOfDuties' /\ AuthorityWasHeld' /\ OverlapOnlyByRace'
  BY <1>1, <1>2, WriteChangeInv
<1>5. PendingRevokesExist'
  BY DEF Inv, PendingRevokesExist, Exists, delegationVars
<1> QED
  BY <1>2, <1>3, <1>4, <1>5 DEF Inv

-----------------------------------------------------------------------------
(* Administration never deletes an assignment and changes nothing of one but *)
(* its isActive flag.                                                        *)
LEMMA AssignmentsEndure ==
  ASSUME DelegationTypeOK, PendingRevokesExist, DelegationNext,
         NEW a \in Assignments, Exists(a)
  PROVE  /\ assignments'[a] \in Assignment
         /\ \/ assignments'[a] = assignments[a]
            \/ assignments'[a] = [assignments[a] EXCEPT !.isActive = FALSE]
<1>0. assignments[a] \in Assignment
  BY DEF DelegationTypeOK, Exists
<1>1. ASSUME NEW k \in AdminCalls, CommitCreateAssignment(k)
      PROVE  assignments'[a] = assignments[a]
  BY <1>1 DEF CommitCreateAssignment, Exists, DelegationTypeOK
<1>2. ASSUME NEW k \in AdminCalls, CommitRevoke(k)
      PROVE  \/ assignments'[a] = assignments[a]
             \/ assignments'[a] = [assignments[a] EXCEPT !.isActive = FALSE]
  BY <1>2 DEF CommitRevoke, DelegationTypeOK
<1>3. \/ assignments'[a] = assignments[a]
      \/ assignments'[a] = [assignments[a] EXCEPT !.isActive = FALSE]
  BY <1>1, <1>2
     DEF DelegationNext, BeginCreateAssignment, BeginRevoke, AbandonAdminCall, NextDay
<1>4. [assignments[a] EXCEPT !.isActive = FALSE] \in Assignment
  BY <1>0 DEF Assignment
<1> QED
  BY <1>0, <1>3, <1>4

(* So the types of the delegation state hold in every state.                 *)
LEMMA DelegationTypes ==
  ASSUME DelegationTypeOK, PendingRevokesExist, DelegationNext
  PROVE  DelegationTypeOK' /\ PendingRevokesExist'
<1>1. ASSUME NEW a \in Assignments, Exists(a)
      PROVE  assignments'[a] \in Assignment /\ Exists(a)'
  BY <1>1, AssignmentsEndure, DelegationSentinels DEF Exists
<1>2. CASE \E k \in AdminCalls, u \in Users, x \in Assignment :
             BeginCreateAssignment(k, u, x)
  <2>1. DelegationTypeOK'
    BY <1>2 DEF BeginCreateAssignment, DelegationTypeOK, AdminCall
  <2>2. PendingRevokesExist'
    BY <1>2 DEF BeginCreateAssignment, DelegationTypeOK, PendingRevokesExist, Exists
  <2> QED
    BY <2>1, <2>2
<1>3. CASE \E k \in AdminCalls, u \in Users, a \in Assignments : BeginRevoke(k, u, a)
  <2>1. DelegationTypeOK'
    BY <1>3 DEF BeginRevoke, DelegationTypeOK, AdminCall
  <2>2. PendingRevokesExist'
    BY <1>3 DEF BeginRevoke, DelegationTypeOK, PendingRevokesExist, Exists
  <2> QED
    BY <2>1, <2>2
<1>4. ASSUME NEW k \in AdminCalls, CommitCreateAssignment(k)
      PROVE  DelegationTypeOK' /\ PendingRevokesExist'
  <2>1. adminCall[k].assignment \in Assignment
    BY <1>4 DEF CommitCreateAssignment, DelegationTypeOK, AdminCall
  <2>2. DelegationTypeOK'
    BY <1>4, <2>1 DEF CommitCreateAssignment, DelegationTypeOK
  <2>3. ASSUME NEW j \in AdminCalls, adminCall'[j] # Idle
        PROVE  adminCall'[j] = adminCall[j] /\ adminCall[j] \in AdminCall
    BY <1>4, <2>3 DEF CommitCreateAssignment, DelegationTypeOK
  <2>4. \A j \in AdminCalls :
          (adminCall[j] \in AdminCall /\ adminCall[j].op = "revoke")
            => adminCall[j].id \in Assignments
    BY DEF AdminCall
  <2> QED
    BY <1>1, <2>2, <2>3, <2>4 DEF PendingRevokesExist
<1>5. ASSUME NEW k \in AdminCalls, CommitRevoke(k)
      PROVE  DelegationTypeOK' /\ PendingRevokesExist'
  <2>1. adminCall[k] \in [op : {"revoke"}, id : Assignments]
    BY <1>5 DEF CommitRevoke, DelegationTypeOK, AdminCall
  <2> DEFINE a == adminCall[k].id
  <2>2. a \in Assignments /\ Exists(a)
    BY <1>5, <2>1 DEF CommitRevoke, PendingRevokesExist
  <2>3. assignments' = [assignments EXCEPT ![a] = [@ EXCEPT !.isActive = FALSE]]
    BY <1>5 DEF CommitRevoke
  <2>4. [assignments[a] EXCEPT !.isActive = FALSE] \in Assignment
    BY <2>2 DEF DelegationTypeOK, Assignment, Exists
  <2>5. DelegationTypeOK'
    <3>1. assignments' \in [Assignments -> Assignment \cup {NoAssignment}]
      BY <2>2, <2>3, <2>4 DEF DelegationTypeOK
    <3> QED
      BY <1>5, <3>1 DEF CommitRevoke, DelegationTypeOK
  <2>6. ASSUME NEW j \in AdminCalls, adminCall'[j] # Idle
        PROVE  adminCall'[j] = adminCall[j] /\ adminCall[j] \in AdminCall
    BY <1>5, <2>6 DEF CommitRevoke, DelegationTypeOK
  <2>7. \A j \in AdminCalls :
          (adminCall[j] \in AdminCall /\ adminCall[j].op = "revoke")
            => adminCall[j].id \in Assignments
    BY DEF AdminCall
  <2> QED
    BY <1>1, <2>5, <2>6, <2>7 DEF PendingRevokesExist
<1>6. CASE \E k \in AdminCalls : AbandonAdminCall(k)
  BY <1>6 DEF AbandonAdminCall, DelegationTypeOK, PendingRevokesExist, Exists
<1>7. CASE NextDay
  BY <1>7, DelegationAssumption
     DEF NextDay, DelegationTypeOK, Dates, PendingRevokesExist, Exists
<1> QED
  BY <1>2, <1>3, <1>4, <1>5, <1>6, <1>7 DEF DelegationNext

(* An authority that existed still exists after an administration step.      *)
LEMMA AuthorityEndures ==
  ASSUME DelegationTypeOK, PendingRevokesExist, DelegationNext,
         NEW u, NEW capability, NEW t, NEW lent \in SUBSET Assignments,
         Authorized(u, capability, t, lent)
  PROVE  Authorized(u, capability, t, lent)'
<1>1. CASE HasDirectScope(u, capability)
  BY <1>1 DEF Authorized
<1>2. ASSUME NEW a \in lent, Exists(a), Covers(assignments[a], u, capability, t)
      PROVE  Authorized(u, capability, t, lent)'
  <2>1. assignments[a] \in Assignment /\ assignments'[a] \in Assignment
    BY <1>2, AssignmentsEndure DEF DelegationTypeOK, Exists
  <2>2. \/ assignments'[a] = assignments[a]
        \/ assignments'[a] = [assignments[a] EXCEPT !.isActive = FALSE]
    BY <1>2, AssignmentsEndure
  <2>3. Covers(assignments'[a], u, capability, t)
    BY <1>2, <2>1, <2>2 DEF Covers, Assignment
  <2>4. Exists(a)'
    BY <2>1, DelegationSentinels DEF Exists
  <2> QED
    BY <2>3, <2>4 DEF Authorized
<1> QED
  BY <1>1, <1>2 DEF Authorized

(* Administration steps preserve the invariant.                              *)
LEMMA DelegationStepInv ==
  ASSUME Inv, DelegationNext, UNCHANGED leaveVars
  PROVE  Inv'
<1> USE DEF leaveVars, rowVars, trailVars
<1>0. DelegationTypeOK /\ PendingRevokesExist
  BY DEF Inv, TypeOK
<1>1. TypeOK' /\ PendingRevokesExist'
  BY <1>0, DelegationTypes DEF Inv, TypeOK
<1>2. RowsExact'
  BY DEF Inv, RowsExact, Created
<1>3. PendingCallsJustified'
  <2> SUFFICES ASSUME NEW d \in Calls, NEW j \in AnyCall, call'[d] = j
               PROVE  Justified(j)'
    BY <1>1, PendingByCall
  <2>1. Justified(j)
    BY LeaveSentinels DEF Inv, TypeOK, PendingCallsJustified, Justified, AnyCall
  <2>2. CreateIsJustified(j) => CreateIsJustified(j)'
    BY DEF CreateIsJustified, Created, Active
  <2>3. ASSUME ChangeIsJustified(j), j.op # "create" PROVE ChangeIsJustified(j)'
    <3>1. j.lent \in SUBSET Assignments
      BY <2>3 DEF AnyCall, CreateCall, ChangeCall
    <3> QED
      BY <1>0, <2>3, <3>1, AuthorityEndures DEF ChangeIsJustified, Created
  <2> QED
    BY <2>1, <2>2, <2>3 DEF Justified
<1>4. RevisionLogExact' /\ SeparationOfDuties'
  BY DEF Inv, RevisionLogExact, RevisionsOf, SeparationOfDuties
<1>5. PaperTrailExact'
  BY DEF Inv, PaperTrailExact, PaperTrail, Decided
<1>6. AuthorityWasHeld'
  <2>1. \A r \in revisions : r.lent \in SUBSET Assignments
    BY DEF Inv, TypeOK, Revision
  <2> QED
    BY <1>0, <2>1, AuthorityEndures DEF Inv, AuthorityWasHeld
<1>7. OverlapOnlyByRace'
  BY DEF Inv, OverlapOnlyByRace, Active
<1> QED
  BY <1>1, <1>2, <1>3, <1>4, <1>5, <1>6, <1>7 DEF Inv

-----------------------------------------------------------------------------
(* Every step preserves the invariant.                                       *)
LEMMA NextInv == Inv /\ [Next]_vars => Inv'
<1> SUFFICES ASSUME Inv, [Next]_vars PROVE Inv'
  OBVIOUS
<1>1. ASSUME NEW c \in Calls, AbandonCall(c), UNCHANGED delegationVars
      PROVE  Inv'
  <2>1. OnlyCall(c, Idle)
    BY <1>1 DEF AbandonCall, OnlyCall
  <2> QED
    BY <2>1, OnlyCallInv
<1>2. ASSUME NEW c \in Calls, NEW k \in AnyCall, Justified(k), OnlyCall(c, k)
      PROVE  Inv'
  BY <1>2, OnlyCallInv
<1>3. CASE LeaveNext /\ UNCHANGED delegationVars
  BY <1>1, <1>2, <1>3, BeginStep, CommitCreateDraftInv, ChangeCommitInv DEF LeaveNext
<1>4. CASE DelegationNext /\ UNCHANGED leaveVars
  BY <1>4, DelegationStepInv
<1>5. CASE UNCHANGED vars
  <2> USE <1>5 DEF vars, leaveVars, rowVars, trailVars, delegationVars
  <2>1. TypeOK' /\ PendingRevokesExist'
    BY DEF Inv, TypeOK, DelegationTypeOK, PendingRevokesExist, Exists
  <2>2. RowsExact' /\ OverlapOnlyByRace'
    BY DEF Inv, RowsExact, OverlapOnlyByRace, Created, Active
  <2>3. PendingCallsJustified'
    BY DEF Inv, PendingCallsJustified, CreateIsJustified, ChangeIsJustified,
           Created, Active, Authorized, Exists
  <2>4. RevisionLogExact' /\ PaperTrailExact'
    BY DEF Inv, RevisionLogExact, RevisionsOf, PaperTrailExact, PaperTrail, Decided
  <2>5. SeparationOfDuties' /\ AuthorityWasHeld'
    BY DEF Inv, SeparationOfDuties, AuthorityWasHeld, Authorized, Exists
  <2> QED
    BY <2>1, <2>2, <2>3, <2>4, <2>5 DEF Inv
<1> QED
  BY <1>3, <1>4, <1>5 DEF Next

(* The invariant holds in every reachable state.                             *)
THEOREM InvCorrect == Spec => []Inv
  BY InitInv, NextInv, PTL DEF Spec

-----------------------------------------------------------------------------
(* The types of the columns, the appended rows and the handlers hold always. *)
THEOREM TypeCorrect == Spec => []TypeOK
<1>1. Inv => TypeOK
  BY DEF Inv
<1> QED
  BY <1>1, InvCorrect, PTL

(* No interleaving of handlers loses, doubles or misplaces a transition of a *)
(* leave: its revision rows are exactly 1..version.                          *)
THEOREM RevisionLogCorrect == Spec => []RevisionLogExact
<1>1. Inv => RevisionLogExact
  BY DEF Inv
<1> QED
  BY <1>1, InvCorrect, PTL

(* No race of recorders, owner and void gives a leave two paper results, or  *)
(* lets its columns, its result row and its outbox disagree.                 *)
THEOREM PaperTrailCorrect == Spec => []PaperTrailExact
<1>1. Inv => PaperTrailExact
  BY DEF Inv
<1> QED
  BY <1>1, InvCorrect, PTL

(* Nobody decides a leave of the employee their account is mapped to, and    *)
(* nobody else drafts, submits or cancels it.                                *)
THEOREM SeparationOfDutiesCorrect == Spec => []SeparationOfDuties
<1>1. Inv => SeparationOfDuties
  BY DEF Inv
<1> QED
  BY <1>1, InvCorrect, PTL

(* Whoever decided a leave had a direct grant, or an assignment for its      *)
(* tenant that was active and within its dates when the handler checked it,  *)
(* however the decision races with administration and the calendar.          *)
THEOREM AuthorityCorrect == Spec => []AuthorityWasHeld
<1>1. Inv => AuthorityWasHeld
  BY DEF Inv
<1> QED
  BY <1>1, InvCorrect, PTL

(* Active requests of one employee overlap only when two createDraft calls   *)
(* ran at once.                                                              *)
THEOREM OverlapOnlyByRaceCorrect == Spec => []OverlapOnlyByRace
<1>1. Inv => OverlapOnlyByRace
  BY DEF Inv
<1> QED
  BY <1>1, InvCorrect, PTL

(* What a handler read and decided stays right until it commits or fails.    *)
THEOREM PendingCallsCorrect == Spec => []PendingCallsJustified
<1>1. Inv => PendingCallsJustified
  BY DEF Inv
<1> QED
  BY <1>1, InvCorrect, PTL
=============================================================================
