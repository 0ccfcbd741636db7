------------------------------ MODULE LegacyLeave ------------------------------
(***************************************************************************)
(* The Laravel workflow that is being replaced: LeaveRequestService.       *)
(* create inserts a draft with its first revision; transition reads the    *)
(* row at the start of a transaction, checks it, and writes the row, a     *)
(* revision, an audit row and an event at the end.  On MySQL these reads   *)
(* lock nothing: what makes two transitions of one leave exclude each      *)
(* other is the unique key (leave_request_id, revision_no), which fails    *)
(* the second insert and with it the transaction.                          *)
(*                                                                         *)
(* Every user of the model has access to the tenant: without it, nothing   *)
(* is read.  Durations and reasons are left out.                           *)
(***************************************************************************)
EXTENDS Integers, Sequences, FiniteSets

CONSTANTS
  Leaves,       \* ids of leave requests
  Persons,
  Memberships,  \* TenantMembership rows of the tenant
  Requests,     \* slots for transitions in progress
  NoLeave,      \* a leave request row that does not exist
  NoTransition, \* a slot that is not in use
  LastDate,     \* bound: the last date of the model
  Forms,        \* bound: what each leave may be created with
  MaxRevisions  \* bound: how many revisions each leave may have

Dates == 1 .. LastDate
Statuses == { "DRAFT", "CONFIRMED", "CANCELLED", "VOID" }
Targets == { "CONFIRMED", "CANCELLED", "VOID" }
ChangeTypes == { "CREATED", "CONFIRMED", "CANCELLED", "VOIDED" }

LeaveForm == { f \in [ person : Persons, first : Dates, last : Dates ] : f.first <= f.last }
LeaveRequest == [ form : LeaveForm, status : Statuses, revision : Nat \ {0} ]

(* What a transition has read: the row's revision, and the effective leaves  *)
(* of the person.                                                            *)
Transition ==
  [ leave : Leaves, target : Targets, revision : Nat \ {0}, others : SUBSET Leaves ]

ASSUME LegacyLeaveAssumption ==
  /\ LastDate \in Nat \ {0}
  /\ Memberships \subseteq [ person : Persons, first : Dates, last : Dates ]
  /\ Forms \in [ Leaves -> SUBSET LeaveForm ]
  /\ MaxRevisions \in [ Leaves -> Nat ]
  /\ NoLeave \notin LeaveRequest
  /\ NoTransition \notin Transition

VARIABLES
  leave,       \* LeaveRequest rows
  revisions,   \* LeaveRevision rows of each leave: change types by revision_no
  events,      \* OutboxEvent rows of each leave, in order: its status
  transition,  \* what each transition in progress has read
  checked      \* history: the effective leaves that a confirmation has seen

leaveVars == << leave, revisions, events, transition, checked >>

LeaveInit ==
  /\ leave = [ l \in Leaves |-> NoLeave ]
  /\ revisions = [ l \in Leaves |-> << >> ]
  /\ events = [ l \in Leaves |-> << >> ]
  /\ transition = [ c \in Requests |-> NoTransition ]
  /\ checked = [ l \in Leaves |-> {} ]

Meet(x, y) == x.first <= y.last /\ y.first <= x.last

Created(l) == leave[l] # NoLeave
Effective == { l \in Leaves : Created(l) /\ leave[l].status = "CONFIRMED" }

(* create.  The membership has to meet the leave only.                       *)
Create(l, f) ==
  /\ ~Created(l)
  /\ \E m \in Memberships : m.person = f.person /\ Meet(m, f)
  /\ leave' = [ leave EXCEPT ![l] = [ form |-> f, status |-> "DRAFT", revision |-> 1 ] ]
  /\ revisions' = [ revisions EXCEPT ![l] = << "CREATED" >> ]
  /\ events' = [ events EXCEPT ![l] = << "DRAFT" >> ]
  /\ UNCHANGED << transition, checked >>

Allowed(status, target) ==
  \/ status = "DRAFT" /\ target \in { "CONFIRMED", "VOID" }
  \/ status = "CONFIRMED" /\ target = "CANCELLED"
  \/ status = "CANCELLED" /\ target = "VOID"

Overlapping(l) ==
  { o \in Effective \ {l} :
      leave[o].form.person = leave[l].form.person /\ Meet(leave[o].form, leave[l].form) }

(* Mutant: the effective leaves are not looked at.                           *)
BeginTransitionUnchecked(c, l, target) ==
  /\ transition[c] = NoTransition
  /\ Created(l)
  /\ leave[l].revision < MaxRevisions[l]
  /\ Allowed(leave[l].status, target)
  /\ transition' = [ transition EXCEPT ![c] =
       [ leave |-> l, target |-> target, revision |-> leave[l].revision,
         others |-> IF target = "CONFIRMED" THEN Effective ELSE {} ] ]
  /\ UNCHANGED << leave, revisions, events, checked >>

(* The reads of transition: the row is refreshed, which fixes what the       *)
(* transaction sees; only a confirmation looks for overlapping leaves.       *)
BeginTransition(c, l, target) ==
  /\ transition[c] = NoTransition
  /\ Created(l)
  /\ leave[l].revision < MaxRevisions[l]
  /\ Allowed(leave[l].status, target)
  /\ target = "CONFIRMED" => Overlapping(l) = {}
  /\ transition' = [ transition EXCEPT ![c] =
       [ leave |-> l, target |-> target, revision |-> leave[l].revision,
         others |-> IF target = "CONFIRMED" THEN Effective ELSE {} ] ]
  /\ UNCHANGED << leave, revisions, events, checked >>

ChangeType(target) == IF target = "VOID" THEN "VOIDED" ELSE target

(* Mutant: revisions have no unique key.                                     *)
CommitTransitionAnyway(c) ==
  LET t == transition[c]
      l == t.leave
  IN  /\ t # NoTransition
      /\ leave' = [ leave EXCEPT ![l].status = t.target, ![l].revision = t.revision + 1 ]
      /\ revisions' = [ revisions EXCEPT ![l] = Append(@, ChangeType(t.target)) ]
      /\ events' = [ events EXCEPT ![l] = Append(@, t.target) ]
      /\ checked' = [ checked EXCEPT ![l] = t.others ]
      /\ transition' = [ transition EXCEPT ![c] = NoTransition ]

(* The writes, which succeed while nobody has added the next revision.       *)
CommitTransition(c) ==
  LET t == transition[c]
      l == t.leave
  IN  /\ t # NoTransition
      /\ Len(revisions[l]) = t.revision
      /\ leave' = [ leave EXCEPT ![l].status = t.target, ![l].revision = t.revision + 1 ]
      /\ revisions' = [ revisions EXCEPT ![l] = Append(@, ChangeType(t.target)) ]
      /\ events' = [ events EXCEPT ![l] = Append(@, t.target) ]
      /\ checked' = [ checked EXCEPT ![l] = t.others ]
      /\ transition' = [ transition EXCEPT ![c] = NoTransition ]

(* The transaction fails, at the unique key or otherwise, or the process     *)
(* dies: it is rolled back.                                                  *)
AbandonTransition(c) ==
  /\ transition[c] # NoTransition
  /\ transition' = [ transition EXCEPT ![c] = NoTransition ]
  /\ UNCHANGED << leave, revisions, events, checked >>

TransitionStep(c) ==
  \/ \E l \in Leaves, target \in Targets : BeginTransition(c, l, target)
  \/ CommitTransition(c) \/ AbandonTransition(c)

(***************************************************************************)
(* Properties.                                                             *)
(***************************************************************************)
LeaveTypeOK ==
  /\ leave \in [ Leaves -> LeaveRequest \cup {NoLeave} ]
  /\ revisions \in [ Leaves -> Seq(ChangeTypes) ]
  /\ events \in [ Leaves -> Seq(Statuses) ]
  /\ transition \in [ Requests -> Transition \cup {NoTransition} ]
  /\ checked \in [ Leaves -> SUBSET Leaves ]

(* Whatever transitions race, the revisions of a leave are one of the        *)
(* histories below, numbered without a gap, and they, the events and the row *)
(* tell the same story.                                                      *)
Histories ==
  { << "CREATED" >>, << "CREATED", "CONFIRMED" >>, << "CREATED", "VOIDED" >>,
    << "CREATED", "CONFIRMED", "CANCELLED" >>,
    << "CREATED", "CONFIRMED", "CANCELLED", "VOIDED" >> }
StatusAfter(change) ==
  CASE change = "CREATED" -> "DRAFT" [] change = "VOIDED" -> "VOID" [] OTHER -> change
HistoryExact ==
  \A l \in Leaves :
    IF Created(l)
    THEN /\ revisions[l] \in Histories
         /\ leave[l].revision = Len(revisions[l])
         /\ leave[l].status = StatusAfter(revisions[l][Len(revisions[l])])
         /\ Len(events[l]) = Len(revisions[l])
         /\ \A n \in 1 .. Len(events[l]) : events[l][n] = StatusAfter(revisions[l][n])
    ELSE revisions[l] = << >> /\ events[l] = << >>

(* Two effective leaves of a person overlap only when neither confirmation   *)
(* could see the other: nothing locks between the check and the write.       *)
ConfirmedOverlapOnlyByRace ==
  \A l \in Effective : \A o \in Overlapping(l) : o \notin checked[l] /\ l \notin checked[o]
=============================================================================
