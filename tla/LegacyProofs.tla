------------------------------ MODULE LegacyProofs ------------------------------
(***************************************************************************)
(* Theorems about LegacySnapshots, and LegacyLeave within it, for any      *)
(* leaves, persons, memberships, requests, dates, versions and deliveries. *)
(*                                                                         *)
(* The invariant of the workflow says what a transition in progress may    *)
(* rely on: as long as its revision is the row's, the row has the status   *)
(* that it was read with, and what its check saw is no draft any more      *)
(* (TransitionsHold, SightsStand).                                         *)
(***************************************************************************)
EXTENDS LegacySnapshots, FiniteSetTheorems, FunctionTheorems, SequenceTheorems, TLAPS

(* What a step does to the workflow, whoever else takes part in it.          *)
LeaveNext ==
  \/ \E l \in Leaves : \E f \in Forms[l] : Create(l, f)
  \/ \E c \in Requests : TransitionStep(c)

Clash(l, o) == leave[o].form.person = leave[l].form.person /\ Meet(leave[o].form, leave[l].form)

TransitionsHold ==
  \A c \in Requests :
    LET t == transition[c]
    IN  t # NoTransition =>
          /\ Created(t.leave)
          /\ t.revision = leave[t.leave].revision => Allowed(leave[t.leave].status, t.target)
          /\ \A o \in t.others : Created(o) /\ leave[o].status # "DRAFT"
          /\ t.target = "CONFIRMED" => \A o \in t.others \ {t.leave} : ~Clash(t.leave, o)
          /\ t.revision <= leave[t.leave].revision

SightsStand ==
  \A l \in Leaves : \A o \in checked[l] : Created(o) /\ leave[o].status # "DRAFT"

LeaveInv ==
  LeaveTypeOK /\ HistoryExact /\ TransitionsHold /\ SightsStand /\ ConfirmedOverlapOnlyByRace

(***************************************************************************)
(* The workflow.                                                           *)
(***************************************************************************)
LEMMA LeaveInitInv == LeaveInit => LeaveInv
<1> SUFFICES ASSUME LeaveInit PROVE LeaveInv
  OBVIOUS
<1>1. \A l \in Leaves : ~Created(l)
  BY DEF LeaveInit, Created
<1>2. << >> \in Seq(ChangeTypes) /\ << >> \in Seq(Statuses)
  OBVIOUS
<1>3. LeaveTypeOK
  BY <1>2 DEF LeaveInit, LeaveTypeOK
<1>4. HistoryExact
  BY <1>1 DEF LeaveInit, HistoryExact
<1>5. TransitionsHold /\ SightsStand
  BY DEF LeaveInit, TransitionsHold, SightsStand
<1>6. ConfirmedOverlapOnlyByRace
  BY <1>1 DEF ConfirmedOverlapOnlyByRace, Effective
<1> QED BY <1>3, <1>4, <1>5, <1>6 DEF LeaveInv

LEMMA AppendIs ==
  ASSUME NEW S, NEW h \in Seq(S), NEW x \in S, NEW k \in Seq(S), Len(k) = Len(h) + 1,
         k[Len(h) + 1] = x, \A n \in 1 .. Len(h) : k[n] = h[n]
  PROVE  Append(h, x) = k
<1>1. /\ Append(h, x) \in Seq(S) /\ Len(Append(h, x)) = Len(k)
      /\ \A n \in 1 .. Len(Append(h, x)) : Append(h, x)[n] = k[n]
  BY AppendProperties
<1> QED BY <1>1, SeqEqual

LEMMA AppendTwo ==
  ASSUME NEW w, NEW x
  PROVE  Append(<< w >>, x) = << w, x >>
<1>1. PICK h, k : h = << w >> /\ k = << w, x >>
  OBVIOUS
<1>2. /\ h \in Seq({ w, x }) /\ k \in Seq({ w, x }) /\ x \in { w, x }
      /\ Len(k) = Len(h) + 1 /\ k[Len(h) + 1] = x
      /\ \A n \in 1 .. Len(h) : k[n] = h[n]
  BY <1>1
<1>3. Append(h, x) = k
  BY <1>2, AppendIs
<1> QED BY <1>1, <1>3

LEMMA AppendThree ==
  ASSUME NEW w, NEW x, NEW y
  PROVE  Append(<< w, x >>, y) = << w, x, y >>
<1>1. PICK h, k : h = << w, x >> /\ k = << w, x, y >>
  OBVIOUS
<1>2. /\ h \in Seq({ w, x, y }) /\ k \in Seq({ w, x, y }) /\ y \in { w, x, y }
      /\ Len(k) = Len(h) + 1 /\ k[Len(h) + 1] = y
      /\ \A n \in 1 .. Len(h) : k[n] = h[n]
  BY <1>1
<1>3. Append(h, y) = k
  BY <1>2, AppendIs
<1> QED BY <1>1, <1>3

LEMMA AppendFour ==
  ASSUME NEW w, NEW x, NEW y, NEW z
  PROVE  Append(<< w, x, y >>, z) = << w, x, y, z >>
<1>1. PICK h, k : h = << w, x, y >> /\ k = << w, x, y, z >>
  OBVIOUS
<1>2. /\ h \in Seq({ w, x, y, z }) /\ k \in Seq({ w, x, y, z }) /\ z \in { w, x, y, z }
      /\ Len(k) = Len(h) + 1 /\ k[Len(h) + 1] = z
      /\ \A n \in 1 .. Len(h) : k[n] = h[n]
  BY <1>1
<1>3. Append(h, z) = k
  BY <1>2, AppendIs
<1> QED BY <1>1, <1>3

(* A move that is allowed leads from one history to another.                 *)
LEMMA HistoryGrows ==
  ASSUME NEW h \in Histories, NEW target \in Targets, Allowed(StatusAfter(h[Len(h)]), target)
  PROVE  /\ h \in Seq(ChangeTypes) /\ ChangeType(target) \in ChangeTypes
         /\ Append(h, ChangeType(target)) \in Histories
<1>0. h \in Seq(ChangeTypes)
  BY DEF Histories, ChangeTypes
<1>1. CASE h = << "CREATED" >>
  <2>1. target \in { "CONFIRMED", "VOID" }
    BY <1>1 DEF Allowed, StatusAfter
  <2>2. Append(h, "CONFIRMED") = << "CREATED", "CONFIRMED" >>
    BY <1>1, AppendTwo
  <2>3. Append(h, "VOIDED") = << "CREATED", "VOIDED" >>
    BY <1>1, AppendTwo
  <2> QED BY <1>0, <2>1, <2>2, <2>3 DEF Histories, ChangeType, ChangeTypes
<1>2. CASE h = << "CREATED", "CONFIRMED" >>
  <2>1. target = "CANCELLED"
    BY <1>2 DEF Allowed, StatusAfter
  <2>2. Append(h, "CANCELLED") = << "CREATED", "CONFIRMED", "CANCELLED" >>
    BY <1>2, AppendThree
  <2> QED BY <1>0, <2>1, <2>2 DEF Histories, ChangeType, ChangeTypes
<1>3. CASE h = << "CREATED", "VOIDED" >>
  BY <1>3 DEF Histories, Targets, Allowed, StatusAfter, ChangeType
<1>4. CASE h = << "CREATED", "CONFIRMED", "CANCELLED" >>
  <2>1. target = "VOID"
    BY <1>4 DEF Allowed, StatusAfter
  <2>2. Append(h, "VOIDED") = << "CREATED", "CONFIRMED", "CANCELLED", "VOIDED" >>
    BY <1>4, AppendFour
  <2> QED BY <1>0, <2>1, <2>2 DEF Histories, ChangeType, ChangeTypes
<1>5. CASE h = << "CREATED", "CONFIRMED", "CANCELLED", "VOIDED" >>
  BY <1>5 DEF Histories, Targets, Allowed, StatusAfter, ChangeType
<1> QED BY <1>1, <1>2, <1>3, <1>4, <1>5 DEF Histories

LEMMA CreateInv ==
  ASSUME LeaveInv, NEW l \in Leaves, NEW f \in Forms[l], Create(l, f)
  PROVE  LeaveInv'
<1> USE DEF LeaveInv
<1>1. f \in LeaveForm
  BY LegacyLeaveAssumption
<1>2. PICK row \in LeaveRequest :
        /\ row.form = f /\ row.status = "DRAFT" /\ row.revision = 1
        /\ leave' = [ leave EXCEPT ![l] = row ]
  <2> DEFINE row == [ form |-> f, status |-> "DRAFT", revision |-> 1 ]
  <2>1. row \in LeaveRequest /\ row.form = f /\ row.status = "DRAFT" /\ row.revision = 1
    BY <1>1 DEF LeaveRequest, Statuses
  <2>2. leave' = [ leave EXCEPT ![l] = row ]
    BY DEF Create
  <2> HIDE DEF row
  <2> QED BY <2>1, <2>2
<1>3. /\ ~Created(l) /\ row # NoLeave
      /\ revisions' = [ revisions EXCEPT ![l] = << "CREATED" >> ]
      /\ events' = [ events EXCEPT ![l] = << "DRAFT" >> ]
      /\ UNCHANGED << transition, checked >>
  BY <1>2, LegacyLeaveAssumption DEF Create
<1>4. \A o \in Leaves : Created(o) => o # l /\ leave'[o] = leave[o] /\ Created(o)'
  BY <1>2, <1>3 DEF Created, LeaveTypeOK
<1>5. leave'[l] = row /\ Created(l)'
  BY <1>2, <1>3 DEF Created, LeaveTypeOK
<1>6. Effective' = Effective
  BY <1>2, <1>3, <1>4, <1>5 DEF Effective, Created, LeaveTypeOK
<1>7. LeaveTypeOK'
  <2>1. << "CREATED" >> \in Seq(ChangeTypes) /\ << "DRAFT" >> \in Seq(Statuses)
    BY DEF ChangeTypes, Statuses
  <2> QED BY <1>2, <1>3, <2>1 DEF LeaveTypeOK
<1>8. HistoryExact'
  <2>1. << "CREATED" >> \in Histories /\ StatusAfter("CREATED") = "DRAFT"
    BY DEF Histories, StatusAfter
  <2>2. /\ revisions'[l] = << "CREATED" >> /\ events'[l] = << "DRAFT" >>
        /\ \A k \in Leaves \ {l} :
             /\ revisions'[k] = revisions[k] /\ events'[k] = events[k] /\ leave'[k] = leave[k]
    BY <1>2, <1>3 DEF LeaveTypeOK
  <2>3. ASSUME NEW k \in Leaves \ {l}
        PROVE  Created(k)' <=> Created(k)
    BY <2>2, <2>3 DEF Created
  <2> SUFFICES ASSUME NEW k \in Leaves
               PROVE  ( IF Created(k)
                        THEN /\ revisions[k] \in Histories
                             /\ leave[k].revision = Len(revisions[k])
                             /\ leave[k].status = StatusAfter(revisions[k][Len(revisions[k])])
                             /\ Len(events[k]) = Len(revisions[k])
                             /\ \A n \in 1 .. Len(events[k]) : events[k][n] = StatusAfter(revisions[k][n])
                        ELSE revisions[k] = << >> /\ events[k] = << >> )'
    BY DEF HistoryExact
  <2>4. CASE k = l
    <3>1. /\ Len(<< "CREATED" >>) = 1 /\ << "CREATED" >>[1] = "CREATED"
          /\ Len(<< "DRAFT" >>) = 1 /\ << "DRAFT" >>[1] = "DRAFT"
      OBVIOUS
    <3>2. /\ leave'[k].revision = 1 /\ leave'[k].status = "DRAFT" /\ Created(k)'
          /\ revisions'[k] = << "CREATED" >> /\ events'[k] = << "DRAFT" >>
      BY <1>2, <1>5, <2>2, <2>4
    <3>3. \A n \in 1 .. 1 : events'[k][n] = StatusAfter(revisions'[k][n])
      BY <2>1, <3>1, <3>2
    <3> QED BY <2>1, <3>1, <3>2, <3>3
  <2>5. CASE k # l
    BY <2>2, <2>3, <2>5 DEF HistoryExact
  <2> QED BY <2>4, <2>5
<1>9. TransitionsHold'
  BY <1>3, <1>4 DEF TransitionsHold, LeaveTypeOK, Transition, Clash
<1>10. SightsStand'
  BY <1>3, <1>4 DEF SightsStand, LeaveTypeOK
<1>11. ConfirmedOverlapOnlyByRace'
  <2>1. \A k \in Effective : Created(k) /\ k \in Leaves
    BY DEF Effective
  <2>2. \A k \in Effective : Overlapping(k)' = Overlapping(k)
    BY <1>4, <1>6, <2>1 DEF Overlapping
  <2> QED BY <1>3, <1>6, <2>2 DEF ConfirmedOverlapOnlyByRace
<1> QED BY <1>7, <1>8, <1>9, <1>10, <1>11

LEMMA BeginTransitionInv ==
  ASSUME LeaveInv, NEW c \in Requests, NEW l \in Leaves, NEW target \in Targets,
         BeginTransition(c, l, target)
  PROVE  LeaveInv'
<1> USE DEF LeaveInv
<1>1. leave[l] \in LeaveRequest /\ Created(l)
  BY DEF BeginTransition, LeaveTypeOK, Created
<1>2. PICK t \in Transition :
        /\ t.leave = l /\ t.target = target /\ t.revision = leave[l].revision
        /\ t.others = IF target = "CONFIRMED" THEN Effective ELSE {}
        /\ transition' = [ transition EXCEPT ![c] = t ]
  <2>1. PICK others \in SUBSET Leaves : others = IF target = "CONFIRMED" THEN Effective ELSE {}
    BY DEF Effective
  <2> DEFINE t == [ leave |-> l, target |-> target, revision |-> leave[l].revision, others |-> others ]
  <2>2. /\ t \in Transition
        /\ t.leave = l /\ t.target = target /\ t.revision = leave[l].revision /\ t.others = others
    BY <1>1 DEF Transition, LeaveRequest
  <2>3. transition' = [ transition EXCEPT ![c] = t ]
    BY <2>1 DEF BeginTransition
  <2> HIDE DEF t
  <2> QED BY <2>1, <2>2, <2>3
<1>3. Allowed(leave[l].status, target) /\ UNCHANGED << leave, revisions, events, checked >>
  BY DEF BeginTransition
<1>4. \A o \in t.others : Created(o) /\ leave[o].status # "DRAFT"
  BY <1>2 DEF Effective
<1>5. target = "CONFIRMED" => \A o \in t.others \ {l} : ~Clash(l, o)
  BY <1>2 DEF BeginTransition, Overlapping, Clash
<1>6. LeaveTypeOK'
  BY <1>2, <1>3 DEF LeaveTypeOK
<1>7. TransitionsHold'
  BY <1>1, <1>2, <1>3, <1>4, <1>5 DEF TransitionsHold, LeaveTypeOK, Clash, Created, LeaveRequest
<1> QED BY <1>3, <1>6, <1>7
         DEF HistoryExact, SightsStand, ConfirmedOverlapOnlyByRace, Effective, Overlapping, Created

LEMMA AbandonTransitionInv ==
  ASSUME LeaveInv, NEW c \in Requests, AbandonTransition(c)
  PROVE  LeaveInv'
  BY DEF LeaveInv, AbandonTransition, LeaveTypeOK, TransitionsHold, HistoryExact, SightsStand,
         ConfirmedOverlapOnlyByRace, Effective, Overlapping, Created, Clash

LEMMA LeaveStays == UNCHANGED leaveVars /\ LeaveInv => LeaveInv'
  BY DEF leaveVars, LeaveInv, LeaveTypeOK, TransitionsHold, HistoryExact, SightsStand,
         ConfirmedOverlapOnlyByRace, Effective, Overlapping, Created, Clash

(* What a transition writes; it finds the row as it was read, for otherwise  *)
(* its revision exists already.                                              *)
CommitEffect(c, t, l, row) ==
  /\ t = transition[c] /\ t \in Transition /\ l = t.leave /\ l \in Leaves
  /\ leave[l] \in LeaveRequest /\ row \in LeaveRequest /\ row # NoLeave /\ Created(l)
  /\ row.form = leave[l].form /\ row.status = t.target /\ row.revision = t.revision + 1
  /\ leave' = [ leave EXCEPT ![l] = row ]
  /\ revisions' = [ revisions EXCEPT ![l] = Append(revisions[l], ChangeType(t.target)) ]
  /\ events' = [ events EXCEPT ![l] = Append(events[l], t.target) ]
  /\ checked' = [ checked EXCEPT ![l] = t.others ]
  /\ transition' = [ transition EXCEPT ![c] = NoTransition ]
  /\ leave[l].revision = t.revision /\ Len(revisions[l]) = t.revision
  /\ Allowed(leave[l].status, t.target)
  /\ \A o \in t.others : Created(o) /\ leave[o].status # "DRAFT"
  /\ t.target = "CONFIRMED" => \A o \in t.others \ {l} : ~Clash(l, o)

LEMMA CommitTransitionEffect ==
  ASSUME LeaveInv, NEW c \in Requests, CommitTransition(c)
  PROVE  \E t, l, row : CommitEffect(c, t, l, row)
<1> USE DEF LeaveInv
<1>1. PICK t \in Transition : t = transition[c] /\ t # NoTransition
  BY DEF CommitTransition, LeaveTypeOK
<1>2. PICK l \in Leaves : l = t.leave
  BY DEF Transition
<1>3. Created(l) /\ leave[l] \in LeaveRequest
  BY <1>1, <1>2 DEF TransitionsHold, LeaveTypeOK, Created
<1>4. PICK row \in LeaveRequest :
        /\ row.form = leave[l].form /\ row.status = t.target /\ row.revision = t.revision + 1
        /\ leave' = [ leave EXCEPT ![l] = row ]
  <2> DEFINE row == [ leave[l] EXCEPT !.status = t.target, !.revision = t.revision + 1 ]
  <2>1. /\ row \in LeaveRequest
        /\ row.form = leave[l].form /\ row.status = t.target /\ row.revision = t.revision + 1
    <3>1. t.target \in Statuses /\ t.revision + 1 \in Nat \ {0}
      BY DEF Transition, Targets, Statuses
    <3> QED BY <1>3, <3>1 DEF LeaveRequest
  <2>2. leave' = [ leave EXCEPT ![l] = row ]
    BY <1>1, <1>2 DEF CommitTransition, LeaveTypeOK
  <2> HIDE DEF row
  <2> QED BY <2>1, <2>2
<1>5. row # NoLeave
  BY LegacyLeaveAssumption
<1>6. /\ revisions' = [ revisions EXCEPT ![l] = Append(revisions[l], ChangeType(t.target)) ]
      /\ events' = [ events EXCEPT ![l] = Append(events[l], t.target) ]
      /\ checked' = [ checked EXCEPT ![l] = t.others ]
      /\ transition' = [ transition EXCEPT ![c] = NoTransition ]
      /\ Len(revisions[l]) = t.revision
  BY <1>1, <1>2 DEF CommitTransition, LeaveTypeOK
<1>7. leave[l].revision = t.revision
  BY <1>3, <1>6 DEF HistoryExact
<1>8. /\ Allowed(leave[l].status, t.target)
      /\ \A o \in t.others : Created(o) /\ leave[o].status # "DRAFT"
      /\ t.target = "CONFIRMED" => \A o \in t.others \ {l} : ~Clash(l, o)
  BY <1>1, <1>2, <1>7 DEF TransitionsHold
<1> QED BY <1>1, <1>2, <1>3, <1>4, <1>5, <1>6, <1>7, <1>8 DEF CommitEffect

LEMMA CommitTransitionInv ==
  ASSUME LeaveInv, NEW c \in Requests, CommitTransition(c)
  PROVE  LeaveInv'
<1> USE DEF LeaveInv
<1>0. PICK t, l, row : CommitEffect(c, t, l, row)
  BY CommitTransitionEffect
<1>1. /\ t \in Transition /\ l \in Leaves /\ row \in LeaveRequest /\ row # NoLeave /\ Created(l)
      /\ row.form = leave[l].form /\ row.status = t.target /\ row.revision = t.revision + 1
      /\ leave[l].revision = t.revision
  BY <1>0 DEF CommitEffect
<1>2. /\ leave' = [ leave EXCEPT ![l] = row ]
      /\ checked' = [ checked EXCEPT ![l] = t.others ]
      /\ transition' = [ transition EXCEPT ![c] = NoTransition ]
  BY <1>0 DEF CommitEffect
<1>3. /\ revisions' = [ revisions EXCEPT ![l] = Append(revisions[l], ChangeType(t.target)) ]
      /\ events' = [ events EXCEPT ![l] = Append(events[l], t.target) ]
      /\ Len(revisions[l]) = t.revision
  BY <1>0 DEF CommitEffect
<1>4. /\ Allowed(leave[l].status, t.target) /\ t.target \in Targets /\ t.target # "DRAFT"
      /\ t.revision \in Nat \ {0} /\ t.others \subseteq Leaves
      /\ \A o \in t.others : Created(o) /\ leave[o].status # "DRAFT"
      /\ t.target = "CONFIRMED" => \A o \in t.others \ {l} : ~Clash(l, o)
  BY <1>0 DEF CommitEffect, Transition, Targets
<1>5. \A o \in Leaves :
        /\ Created(o)' <=> Created(o)
        /\ o # l => leave'[o] = leave[o]
        /\ leave'[o].form = leave[o].form
        /\ Created(o) /\ leave[o].status # "DRAFT" => leave'[o].status # "DRAFT"
  BY <1>1, <1>2, <1>4 DEF Created, LeaveTypeOK
<1>6. \A k, o \in Leaves : Clash(k, o)' <=> Clash(k, o)
  BY <1>5 DEF Clash
<1>7. /\ revisions[l] \in Histories /\ Len(events[l]) = Len(revisions[l])
      /\ leave[l].status = StatusAfter(revisions[l][Len(revisions[l])])
      /\ \A n \in 1 .. Len(events[l]) : events[l][n] = StatusAfter(revisions[l][n])
      /\ revisions[l] \in Seq(ChangeTypes) /\ events[l] \in Seq(Statuses)
  BY <1>1 DEF HistoryExact, LeaveTypeOK
<1>8. /\ ChangeType(t.target) \in ChangeTypes
      /\ Append(revisions[l], ChangeType(t.target)) \in Histories
  BY <1>4, <1>7, HistoryGrows
<1>9. t.target \in Statuses /\ StatusAfter(ChangeType(t.target)) = t.target
  BY <1>4 DEF Targets, Statuses, StatusAfter, ChangeType
<1>10. /\ revisions'[l] = Append(revisions[l], ChangeType(t.target)) /\ revisions'[l] \in Seq(ChangeTypes)
       /\ Len(revisions'[l]) = t.revision + 1
       /\ revisions'[l][t.revision + 1] = ChangeType(t.target)
       /\ \A n \in 1 .. t.revision : revisions'[l][n] = revisions[l][n]
  BY <1>1, <1>3, <1>7, <1>8, AppendProperties DEF LeaveTypeOK
<1>11. /\ events'[l] = Append(events[l], t.target) /\ events'[l] \in Seq(Statuses)
       /\ Len(events'[l]) = t.revision + 1
       /\ events'[l][t.revision + 1] = t.target
       /\ \A n \in 1 .. t.revision : events'[l][n] = events[l][n]
  BY <1>1, <1>3, <1>7, <1>9, AppendProperties DEF LeaveTypeOK
<1>12. LeaveTypeOK'
  BY <1>1, <1>2, <1>3, <1>4, <1>10, <1>11 DEF LeaveTypeOK
<1>13. HistoryExact'
  <2> SUFFICES ASSUME NEW k \in Leaves
               PROVE  ( IF Created(k)
                        THEN /\ revisions[k] \in Histories
                             /\ leave[k].revision = Len(revisions[k])
                             /\ leave[k].status = StatusAfter(revisions[k][Len(revisions[k])])
                             /\ Len(events[k]) = Len(revisions[k])
                             /\ \A n \in 1 .. Len(events[k]) : events[k][n] = StatusAfter(revisions[k][n])
                        ELSE revisions[k] = << >> /\ events[k] = << >> )'
    BY DEF HistoryExact
  <2>1. CASE k = l
    <3>1. leave'[k] = row /\ Created(k)'
      BY <1>1, <1>2, <2>1 DEF LeaveTypeOK, Created
    <3>2. \A n \in 1 .. t.revision + 1 : events'[k][n] = StatusAfter(revisions'[k][n])
      <4> SUFFICES ASSUME NEW n \in 1 .. t.revision + 1
                   PROVE  events'[k][n] = StatusAfter(revisions'[k][n])
        OBVIOUS
      <4>1. CASE n = t.revision + 1
        BY <1>9, <1>10, <1>11, <2>1, <4>1
      <4>2. CASE n \in 1 .. t.revision
        BY <1>3, <1>7, <1>10, <1>11, <2>1, <4>2
      <4> QED BY <1>4, <4>1, <4>2
    <3> QED BY <1>1, <1>8, <1>9, <1>10, <1>11, <2>1, <3>1, <3>2
  <2>2. CASE k # l
    <3>1. /\ revisions'[k] = revisions[k] /\ events'[k] = events[k] /\ leave'[k] = leave[k]
          /\ Created(k)' <=> Created(k)
      BY <1>2, <1>3, <1>5, <2>2 DEF LeaveTypeOK
    <3> QED BY <3>1 DEF HistoryExact
  <2> QED BY <2>1, <2>2
<1>14. TransitionsHold'
  <2> SUFFICES ASSUME NEW b \in Requests, NEW u, u = transition'[b], u # NoTransition
               PROVE  /\ Created(u.leave)'
                      /\ u.revision = leave'[u.leave].revision => Allowed(leave'[u.leave].status, u.target)
                      /\ \A o \in u.others : Created(o)' /\ leave'[o].status # "DRAFT"
                      /\ u.target = "CONFIRMED" => \A o \in u.others \ {u.leave} : ~Clash(u.leave, o)'
                      /\ u.revision <= leave'[u.leave].revision
    BY DEF TransitionsHold, Clash, Created
  <2>1. b # c /\ u = transition[b] /\ u \in Transition
    BY <1>2 DEF LeaveTypeOK
  <2>2. /\ Created(u.leave) /\ u.leave \in Leaves /\ u.others \subseteq Leaves /\ u.revision \in Nat
        /\ u.revision = leave[u.leave].revision => Allowed(leave[u.leave].status, u.target)
        /\ \A o \in u.others : Created(o) /\ leave[o].status # "DRAFT"
        /\ u.target = "CONFIRMED" => \A o \in u.others \ {u.leave} : ~Clash(u.leave, o)
        /\ u.revision <= leave[u.leave].revision
    BY <2>1 DEF TransitionsHold, Transition
  <2>3. CASE u.leave = l
    <3>1. leave'[u.leave].revision = t.revision + 1 /\ u.revision <= t.revision
      BY <1>1, <1>2, <2>2, <2>3 DEF LeaveTypeOK
    <3> QED BY <1>4, <1>5, <1>6, <2>2, <3>1
  <2>4. CASE u.leave # l
    BY <1>5, <1>6, <2>2, <2>4
  <2> QED BY <2>3, <2>4
<1>15. SightsStand'
  BY <1>2, <1>4, <1>5 DEF SightsStand, LeaveTypeOK
<1>16. ConfirmedOverlapOnlyByRace'
  <2>1. l \notin Effective' \/ t.target = "CONFIRMED"
    BY <1>1, <1>2 DEF Effective, LeaveTypeOK
  <2>2. \A k \in Leaves \ {l} : k \in Effective' <=> k \in Effective
    BY <1>5 DEF Effective
  <2>3. t.target = "CONFIRMED" => \A o \in Leaves : l \notin checked[o]
    BY <1>4 DEF Allowed, SightsStand
  <2> SUFFICES ASSUME NEW k \in Effective', NEW o \in Overlapping(k)'
               PROVE  o \notin checked'[k] /\ k \notin checked'[o]
    BY DEF ConfirmedOverlapOnlyByRace
  <2>4. k \in Leaves /\ o \in Leaves /\ o \in Effective' /\ o # k /\ Clash(k, o)
    BY <1>6 DEF Overlapping, Effective, Clash
  <2>5. CASE k = l
    BY <1>2, <1>4, <2>1, <2>3, <2>4, <2>5 DEF LeaveTypeOK
  <2>6. CASE o = l
    <3>1. Clash(l, k)
      BY <2>4, <2>6 DEF Clash, Meet
    <3> QED BY <1>2, <1>4, <2>1, <2>3, <2>4, <2>6, <3>1 DEF LeaveTypeOK
  <2>7. CASE k # l /\ o # l
    <3>1. k \in Effective /\ o \in Overlapping(k)
      BY <2>2, <2>4, <2>7 DEF Overlapping, Clash
    <3> QED BY <1>2, <2>4, <2>7, <3>1 DEF LeaveTypeOK, ConfirmedOverlapOnlyByRace
  <2> QED BY <2>5, <2>6, <2>7
<1> QED BY <1>12, <1>13, <1>14, <1>15, <1>16

LEMMA LeaveNextInv == LeaveInv /\ [LeaveNext]_leaveVars => LeaveInv'
  BY CreateInv, BeginTransitionInv, CommitTransitionInv, AbandonTransitionInv, LeaveStays
  DEF LeaveNext, TransitionStep

(***************************************************************************)
(* The snapshots.  What a request in progress relies on stays true,        *)
(* because rows, deliveries and what Special has taken only grow, and the  *)
(* content of a batch never changes (Grows).                               *)
(***************************************************************************)
SnapshotTypeOK ==
  /\ mapped \subseteq Persons
  /\ dryRun \in BOOLEAN
  /\ batch \in [ Versions -> Batch \cup {NoBatch} ]
  /\ deliveries \in [ Versions -> Seq(DeliveryStatuses) ]
  /\ job \in [ Senders -> PrepareJob \cup SendJob \cup {NoJob} ]
  /\ taken \subseteq Versions

JobHolds(j) ==
  /\ j # NoJob /\ j.op = "numbered" /\ j.version > 1 => Prepared(j.version - 1)
  /\ j # NoJob /\ j.op = "send" =>
       /\ Prepared(j.version)
       /\ j.dry \/ batch[j.version].content.unmapped = {}
       /\ j.dry \/ ~dryRun
       /\ j.step # "loaded" => j.delivery \in DOMAIN deliveries[j.version]
       /\ j.step \in { "answered", "noted", "settled" } => j.version \in taken
       /\ j.step \in { "loaded", "sending", "answered", "refused" } => j.stored # "ACKNOWLEDGED"
JobsHold == \A c \in Senders : JobHolds(job[c])

DryTakesNothing == dryRun => taken = {}

SnapshotInv ==
  SnapshotTypeOK /\ VersionsExact /\ AcknowledgementsHonest /\ JobsHold /\ DryTakesNothing

Grows ==
  /\ \A v \in Versions :
       /\ Prepared(v) => Prepared(v)' /\ batch'[v].content = batch[v].content
       /\ DOMAIN deliveries[v] \subseteq DOMAIN deliveries'[v]
  /\ taken \subseteq taken'
  /\ dryRun' = dryRun

LEMMA SnapshotInitInv == Init => SnapshotInv
<1> SUFFICES ASSUME Init PROVE SnapshotInv
  OBVIOUS
<1>1. \A v \in Versions : ~Prepared(v)
  BY DEF Init, Prepared
<1>2. << >> \in Seq(DeliveryStatuses) /\ DOMAIN << >> = {}
  OBVIOUS
<1>3. SnapshotTypeOK
  BY <1>2 DEF Init, SnapshotTypeOK
<1>4. VersionsExact
  BY <1>1 DEF Init, VersionsExact
<1>5. AcknowledgementsHonest
  <2>1. \A v \in Versions : DOMAIN deliveries[v] = {}
    BY <1>2 DEF Init
  <2> QED BY <1>1, <2>1 DEF Init, AcknowledgementsHonest
<1>6. JobsHold /\ DryTakesNothing
  BY DEF Init, JobsHold, JobHolds, DryTakesNothing
<1> QED BY <1>3, <1>4, <1>5, <1>6 DEF SnapshotInv

LEMMA SnapshotStays == UNCHANGED snapshotVars /\ SnapshotInv => SnapshotInv'
<1> SUFFICES ASSUME UNCHANGED snapshotVars, SnapshotInv PROVE SnapshotInv'
  OBVIOUS
<1> USE DEF snapshotVars, SnapshotInv
<1>1. SnapshotTypeOK' /\ VersionsExact' /\ DryTakesNothing'
  BY DEF SnapshotTypeOK, VersionsExact, DryTakesNothing, Prepared
<1>2. AcknowledgementsHonest'
  BY DEF AcknowledgementsHonest, Prepared
<1>3. JobsHold'
  BY DEF JobsHold, JobHolds, Prepared
<1> QED BY <1>1, <1>2, <1>3

LEMMA VersionsOfJobs ==
  ASSUME NEW j \in PrepareJob \cup SendJob \cup {NoJob}, j # NoJob
  PROVE  /\ j.op = "send" => j \in SendJob /\ j.version \in Versions
         /\ j.op = "numbered" => j.version \in Versions /\ j.content \in Content
         /\ j.op \in { "read", "absent" } => j.content \in Content
         /\ j.op = "read" => j.left \subseteq j.content.leaves
  BY DEF PrepareJob, SendJob

LEMMA JobsFollow ==
  ASSUME SnapshotTypeOK, JobsHold, Grows,
         NEW c \in Senders, NEW next, job' = [ job EXCEPT ![c] = next ], JobHolds(next)'
  PROVE  JobsHold'
<1> SUFFICES ASSUME NEW b \in Senders, NEW j, j = job[b], b # c
             PROVE  JobHolds(j)'
  BY DEF JobsHold, SnapshotTypeOK
<1>1. JobHolds(j) /\ j \in PrepareJob \cup SendJob \cup {NoJob}
  BY DEF JobsHold, SnapshotTypeOK
<1>2. CASE j = NoJob
  BY <1>2 DEF JobHolds
<1>3. CASE j # NoJob /\ j.op = "numbered"
  <2>1. j.version \in Versions
    BY <1>1, <1>3, VersionsOfJobs
  <2>2. j.version > 1 => j.version - 1 \in Versions
    BY <2>1, LegacySnapshotAssumption DEF Versions
  <2> QED BY <1>1, <1>3, <2>2 DEF JobHolds, Grows
<1>4. CASE j # NoJob /\ j.op = "send"
  <2>1. j.version \in Versions
    BY <1>1, <1>4, VersionsOfJobs
  <2> QED BY <1>1, <1>4, <2>1 DEF JobHolds, Grows
<1> QED BY <1>2, <1>3, <1>4 DEF JobHolds

(* A step that only moves a request.                                         *)
LEMMA GoOnInv ==
  ASSUME SnapshotInv, NEW c \in Senders, NEW next \in PrepareJob \cup SendJob \cup {NoJob},
         JobHolds(next), GoOn(c, next), UNCHANGED << mapped, dryRun, batch, deliveries, taken >>
  PROVE  SnapshotInv'
<1> USE DEF SnapshotInv
<1>1. SnapshotTypeOK'
  BY DEF SnapshotTypeOK, GoOn
<1>2. VersionsExact' /\ AcknowledgementsHonest' /\ DryTakesNothing'
  BY DEF VersionsExact, AcknowledgementsHonest, DryTakesNothing, Prepared
<1>3. Grows /\ JobHolds(next)'
  BY DEF Grows, JobHolds, Prepared
<1>4. JobsHold'
  BY <1>3, JobsFollow DEF GoOn
<1> QED BY <1>1, <1>2, <1>4

LEMMA PrepareReadsInv ==
  ASSUME SnapshotInv, LeaveTypeOK, NEW c \in Senders,
         ReadLeaves(c) \/ LookUpMapping(c) \/ FindExisting(c) \/ ChooseVersion(c) \/ Vanish(c)
  PROVE  SnapshotInv'
<1> USE DEF SnapshotInv
<1>1. job[c] \in PrepareJob \cup SendJob \cup {NoJob}
  BY DEF SnapshotTypeOK
<1>2. CASE ReadLeaves(c)
  <2>1. PICK leaves \in SUBSET Leaves : leaves = { l \in Effective : InPeriod(l) }
    BY DEF Effective
  <2>2. PICK content \in Content : content = [ leaves |-> leaves, unmapped |-> {} ]
    BY DEF Content
  <2>3. PICK next \in PrepareJob :
          next = [ op |-> "read", content |-> content, left |-> leaves ] /\ next.op = "read"
    <3> DEFINE next == [ op |-> "read", content |-> content, left |-> leaves ]
    <3>1. /\ next \in [ op : {"read"}, content : Content, left : SUBSET Leaves ]
          /\ next.op = "read" /\ next.left \subseteq next.content.leaves
      BY <2>2
    <3> QED BY <3>1 DEF PrepareJob
  <2>4. GoOn(c, next) /\ UNCHANGED << mapped, dryRun, batch, deliveries, taken >>
    BY <1>2, <2>1, <2>2, <2>3 DEF ReadLeaves
  <2>5. JobHolds(next)
    BY <2>3 DEF JobHolds
  <2> QED BY <2>4, <2>5, GoOnInv
<1>6. CASE LookUpMapping(c)
  <2>1. PICK j \in PrepareJob \cup SendJob :
          j = job[c] /\ j.op = "read" /\ j.content \in Content /\ j.left \subseteq j.content.leaves
    BY <1>1, <1>6, VersionsOfJobs DEF LookUpMapping, Doing
  <2>2. PICK l \in Leaves :
          /\ l \in j.left
          /\ GoOn(c, [ op |-> "read", left |-> j.left \ {l},
                       content |-> IF leave[l].form.person \in mapped THEN j.content
                                   ELSE [ j.content EXCEPT !.unmapped = @ \cup {l} ] ])
    BY <1>6, <2>1 DEF LookUpMapping, Content
  <2>3. PICK content \in Content :
          content = IF leave[l].form.person \in mapped THEN j.content
                    ELSE [ j.content EXCEPT !.unmapped = @ \cup {l} ]
    <3> DEFINE more == [ j.content EXCEPT !.unmapped = @ \cup {l} ]
    <3>1. /\ more \in [ leaves : SUBSET Leaves, unmapped : SUBSET Leaves ]
          /\ more.leaves = j.content.leaves /\ more.unmapped = j.content.unmapped \cup {l}
      BY <2>1, <2>2 DEF Content
    <3>2. more \in Content
      BY <2>1, <2>2, <3>1 DEF Content
    <3> QED BY <2>1, <3>2
  <2>4. PICK next \in PrepareJob :
          next = [ op |-> "read", left |-> j.left \ {l}, content |-> content ] /\ next.op = "read"
    <3> DEFINE next == [ op |-> "read", left |-> j.left \ {l}, content |-> content ]
    <3>1. content.leaves = j.content.leaves /\ content.leaves \in SUBSET Leaves
      BY <2>1, <2>3 DEF Content
    <3>2. /\ next \in [ op : {"read"}, content : Content, left : SUBSET Leaves ]
          /\ next.op = "read" /\ next.left \subseteq next.content.leaves
      BY <2>1, <3>1
    <3> QED BY <3>2 DEF PrepareJob
  <2>5. GoOn(c, next) /\ UNCHANGED << mapped, dryRun, batch, deliveries, taken >>
    BY <1>6, <2>2, <2>3, <2>4 DEF LookUpMapping
  <2>6. JobHolds(next)
    BY <2>4 DEF JobHolds
  <2> QED BY <2>5, <2>6, GoOnInv
<1>3. CASE FindExisting(c)
  <2>1. PICK content \in Content : content = job[c].content
    BY <1>1, <1>3, VersionsOfJobs DEF FindExisting, Doing
  <2>2. PICK next \in PrepareJob : next = [ op |-> "absent", content |-> content ]
    BY DEF PrepareJob
  <2>3. next.op = "absent"
    BY <2>2
  <2>4. GoOn(c, next) \/ GoOn(c, NoJob)
    BY <1>3, <2>1, <2>2 DEF FindExisting
  <2>5. UNCHANGED << mapped, dryRun, batch, deliveries, taken >>
    BY <1>3 DEF FindExisting
  <2>6. JobHolds(next) /\ JobHolds(NoJob)
    BY <2>3 DEF JobHolds
  <2> QED BY <2>4, <2>5, <2>6, GoOnInv
<1>4. CASE ChooseVersion(c)
  <2>1. PICK content \in Content : content = job[c].content
    BY <1>1, <1>4, VersionsOfJobs DEF ChooseVersion, Doing
  <2>2. PICK version \in Versions :
          /\ version > 1 => Prepared(version - 1)
          /\ GoOn(c, [ op |-> "numbered", content |-> content, version |-> version ])
    BY <1>4, <2>1 DEF ChooseVersion
  <2>3. PICK next \in PrepareJob : next = [ op |-> "numbered", content |-> content, version |-> version ]
    BY DEF PrepareJob
  <2>4. next.op = "numbered" /\ next.version = version
    BY <2>3
  <2>5. UNCHANGED << mapped, dryRun, batch, deliveries, taken >>
    BY <1>4 DEF ChooseVersion
  <2>6. JobHolds(next)
    BY <2>2, <2>4 DEF JobHolds
  <2> QED BY <2>2, <2>3, <2>5, <2>6, GoOnInv
<1>5. CASE Vanish(c)
  <2>1. JobHolds(NoJob)
    BY DEF JobHolds
  <2> QED BY <1>5, <2>1, GoOnInv DEF Vanish
<1> QED BY <1>2, <1>3, <1>4, <1>5, <1>6

LEMMA InsertBatchInv ==
  ASSUME SnapshotInv, NEW c \in Senders, InsertBatch(c)
  PROVE  SnapshotInv'
<1> USE DEF SnapshotInv
<1>1. PICK j \in PrepareJob \cup SendJob : j = job[c] /\ j.op = "numbered" /\ j # NoJob
  BY DEF InsertBatch, Doing, SnapshotTypeOK
<1>2. PICK v \in Versions, content \in Content :
        /\ v = j.version /\ content = j.content
        /\ ~Prepared(v) /\ Known(content) = {}
        /\ v > 1 => Prepared(v - 1)
  <2>1. j.version \in Versions /\ j.content \in Content
    BY <1>1, VersionsOfJobs DEF InsertBatch
  <2>2. j.version > 1 => Prepared(j.version - 1)
    BY <1>1 DEF JobsHold, JobHolds
  <2> QED BY <1>1, <2>1, <2>2 DEF InsertBatch
<1>3. PICK row \in Batch :
        /\ row.content = content /\ row.status = "PENDING"
        /\ batch' = [ batch EXCEPT ![v] = row ]
  <2> DEFINE row == [ content |-> content, status |-> "PENDING" ]
  <2>1. row \in Batch /\ row.content = content /\ row.status = "PENDING"
    BY DEF Batch, BatchStatuses
  <2>2. batch' = [ batch EXCEPT ![v] = row ]
    BY <1>1, <1>2 DEF InsertBatch
  <2> HIDE DEF row
  <2> QED BY <2>1, <2>2
<1>4. GoOn(c, NoJob) /\ UNCHANGED << mapped, dryRun, deliveries, taken >>
  BY DEF InsertBatch
<1>5. row # NoBatch
  BY LegacySnapshotAssumption
<1>6. /\ batch'[v] = row /\ Prepared(v)'
      /\ \A w \in Versions \ {v} : batch'[w] = batch[w] /\ (Prepared(w)' <=> Prepared(w))
  BY <1>3, <1>5 DEF SnapshotTypeOK, Prepared
<1>7. SnapshotTypeOK'
  BY <1>3, <1>4 DEF SnapshotTypeOK, GoOn
<1>8. VersionsExact'
  <2>1. ASSUME NEW w \in Versions, Prepared(w)', w > 1
        PROVE  Prepared(w - 1)'
    <3>1. w - 1 \in Versions
      BY <2>1, LegacySnapshotAssumption DEF Versions
    <3> QED BY <1>2, <1>6, <2>1, <3>1 DEF VersionsExact
  <2>2. \A w \in Versions \ {v} : Prepared(w) => batch[w].content # content
    BY <1>2 DEF Known
  <2>3. ASSUME NEW w \in Versions, NEW x \in Versions, Prepared(w)', Prepared(x)',
               batch'[w].content = batch'[x].content
        PROVE  w = x
    BY <1>3, <1>6, <2>2, <2>3 DEF VersionsExact
  <2>4. \A w \in taken : Prepared(w)'
    BY <1>6 DEF VersionsExact, SnapshotTypeOK
  <2> QED BY <1>4, <2>1, <2>3, <2>4 DEF VersionsExact
<1>9. AcknowledgementsHonest'
  <2>1. v \notin taken
    BY <1>2 DEF VersionsExact
  <2> QED BY <1>3, <1>4, <1>6, <2>1 DEF AcknowledgementsHonest, SnapshotTypeOK
<1>10. Grows /\ JobHolds(NoJob)'
  BY <1>2, <1>4, <1>6 DEF Grows, JobHolds
<1>11. JobsHold'
  BY <1>4, <1>10, JobsFollow DEF GoOn
<1>12. DryTakesNothing'
  BY <1>4 DEF DryTakesNothing
<1> QED BY <1>7, <1>8, <1>9, <1>11, <1>12

LEMMA SendingJob ==
  ASSUME SnapshotInv, NEW c \in Senders, NEW step, Sending(c, step)
  PROVE  /\ job[c] \in SendJob /\ job[c] # NoJob
         /\ job[c].op = "send" /\ job[c].step = step
         /\ job[c].version \in Versions
         /\ JobHolds(job[c])
         /\ step # "loaded" =>
              job[c].delivery \in 1 .. Len(deliveries[job[c].version])
<1>1. job[c] \in SendJob /\ job[c] # NoJob /\ job[c].op = "send" /\ job[c].step = step
    BY VersionsOfJobs DEF SnapshotInv, SnapshotTypeOK, Sending, Doing
  <1>2. job[c].version \in Versions
    BY <1>1 DEF SendJob
  <1>3. JobHolds(job[c])
    BY DEF SnapshotInv, JobsHold
  <1>4. DOMAIN deliveries[job[c].version] = 1 .. Len(deliveries[job[c].version])
    BY <1>2 DEF SnapshotInv, SnapshotTypeOK
  <1> QED BY <1>1, <1>2, <1>3, <1>4 DEF JobHolds

LEMMA JobMoves ==
  ASSUME NEW j \in SendJob, NEW step \in SendSteps
  PROVE  \E n \in SendJob :
           /\ n = [ j EXCEPT !.step = step ]
           /\ n.op = "send" /\ n.version = j.version /\ n.step = step
           /\ n.dry = j.dry /\ n.stored = j.stored /\ n.delivery = j.delivery
<1> DEFINE n == [ j EXCEPT !.step = step ]
<1>1. /\ n \in SendJob
      /\ n.op = "send" /\ n.version = j.version /\ n.step = step
      /\ n.dry = j.dry /\ n.stored = j.stored /\ n.delivery = j.delivery
  BY DEF SendJob
<1> QED BY <1>1

LEMMA LoadBatchInv ==
  ASSUME SnapshotInv, NEW c \in Senders, NEW v \in Versions, LoadBatch(c, v)
  PROVE  SnapshotInv'
<1> USE DEF SnapshotInv
<1>1. batch[v] \in Batch /\ Prepared(v)
  BY DEF LoadBatch, SnapshotTypeOK, Prepared
<1>2. PICK stored \in BatchStatuses : stored = batch[v].status
  BY <1>1 DEF Batch
<1>3. PICK next \in SendJob :
        /\ next = [ op |-> "send", version |-> v, step |-> "loaded", dry |-> dryRun,
                    stored |-> stored, delivery |-> 0 ]
        /\ next.op = "send" /\ next.version = v /\ next.step = "loaded" /\ next.stored = stored
        /\ next.dry = dryRun
  <2> DEFINE next == [ op |-> "send", version |-> v, step |-> "loaded", dry |-> dryRun,
                    stored |-> stored, delivery |-> 0 ]
  <2>1. /\ next \in SendJob
        /\ next.op = "send" /\ next.version = v /\ next.step = "loaded" /\ next.stored = stored
        /\ next.dry = dryRun
    BY LegacySnapshotAssumption DEF SendJob, SendSteps, SnapshotTypeOK
  <2> QED BY <2>1
<1>4. GoOn(c, next) /\ UNCHANGED << mapped, dryRun, batch, deliveries, taken >>
  BY <1>2, <1>3 DEF LoadBatch, Loaded
<1>5. JobHolds(next)
  BY <1>1, <1>2, <1>3 DEF LoadBatch, JobHolds
<1> QED BY <1>4, <1>5, GoOnInv

(* Requests that only take note of what has happened.                        *)
LEMMA AnswersInv ==
  ASSUME SnapshotInv, NEW c \in Senders, FinishSend(c) \/ FailToNote(c)
  PROVE  SnapshotInv'
<1>1. CASE FinishSend(c)
  <2>1. JobHolds(NoJob)
    BY DEF JobHolds
  <2> QED BY <1>1, <2>1, GoOnInv DEF FinishSend
<1>2. CASE FailToNote(c)
  <2>1. PICK step \in { "answered", "noted", "settled" } : Sending(c, step)
    BY <1>2 DEF FailToNote
  <2>2. PICK j \in SendJob :
          /\ j = job[c] /\ j # NoJob /\ j.op = "send" /\ j.step = step
          /\ j.version \in Versions /\ JobHolds(j)
    BY <2>1, SendingJob
  <2>3. PICK next \in SendJob :
          /\ next = [ j EXCEPT !.step = "unnoted" ]
          /\ next.op = "send" /\ next.version = j.version /\ next.step = "unnoted"
          /\ next.dry = j.dry /\ next.delivery = j.delivery
    <3>1. "unnoted" \in SendSteps
      BY DEF SendSteps
    <3> QED BY <3>1, JobMoves
  <2>4. JobHolds(next)
    BY <2>1, <2>2, <2>3 DEF JobHolds
  <2> QED BY <1>2, <2>2, <2>3, <2>4, GoOnInv DEF FailToNote
<1> QED BY <1>1, <1>2

LEMMA PostInv ==
  ASSUME SnapshotInv, NEW c \in Senders, Post(c)
  PROVE  SnapshotInv'
<1> USE DEF SnapshotInv
<1>1. Sending(c, "sending") /\ ~job[c].dry
  BY DEF Post
<1>2. PICK j \in SendJob, v \in Versions :
        /\ j = job[c] /\ j # NoJob /\ j.op = "send" /\ j.step = "sending"
        /\ v = j.version /\ JobHolds(j) /\ ~j.dry
  BY <1>1, SendingJob
<1>3. Prepared(v) /\ batch[v].content.unmapped = {} /\ ~dryRun
  BY <1>2 DEF JobHolds
<1>4. PICK step \in { "answered", "refused" } :
        /\ GoOn(c, [ j EXCEPT !.step = step ])
        /\ \/ taken' = taken \cup {v}
           \/ step = "refused" /\ taken' = taken
  <2>1. CASE /\ taken' = taken \cup {job[c].version}
             /\ \E step \in { "answered", "refused" } : GoOn(c, [ job[c] EXCEPT !.step = step ])
    BY <1>2, <2>1
  <2>2. CASE GoOn(c, [ job[c] EXCEPT !.step = "refused" ]) /\ UNCHANGED taken
    BY <1>2, <2>2
  <2> QED BY <2>1, <2>2 DEF Post
<1>5. PICK next \in SendJob :
        /\ next = [ j EXCEPT !.step = step ]
        /\ next.op = "send" /\ next.version = v /\ next.step = step
        /\ next.dry = j.dry /\ next.stored = j.stored /\ next.delivery = j.delivery
  <2>1. step \in SendSteps
    BY DEF SendSteps
  <2>2. PICK next \in SendJob :
          /\ next = [ j EXCEPT !.step = step ]
          /\ next.op = "send" /\ next.version = j.version /\ next.step = step
          /\ next.dry = j.dry /\ next.stored = j.stored /\ next.delivery = j.delivery
    BY <2>1, JobMoves
  <2> QED BY <1>2, <2>2
<1>6. GoOn(c, next) /\ UNCHANGED << mapped, dryRun, batch, deliveries >>
  BY <1>4, <1>5 DEF Post
<1>7. SnapshotTypeOK'
  BY <1>4, <1>6 DEF SnapshotTypeOK, GoOn
<1>8. VersionsExact' /\ AcknowledgementsHonest'
  BY <1>3, <1>4, <1>6 DEF VersionsExact, AcknowledgementsHonest, Prepared
<1>9. DryTakesNothing'
  BY <1>3, <1>6 DEF DryTakesNothing
<1>10. Grows
  BY <1>4, <1>6 DEF Grows, Prepared
<1>11. JobHolds(next)'
  <2>1. /\ Prepared(v)' /\ batch'[v].content.unmapped = {} /\ j.delivery \in DOMAIN deliveries'[v]
        /\ ~dryRun'
    BY <1>2, <1>3, <1>6 DEF JobHolds, Prepared
  <2>2. next.step = "answered" => v \in taken'
    BY <1>4, <1>5
  <2>3. next.stored # "ACKNOWLEDGED"
    BY <1>2, <1>5 DEF JobHolds
  <2> QED BY <1>5, <2>1, <2>2, <2>3 DEF JobHolds
<1>12. JobsHold'
  BY <1>6, <1>10, <1>11, JobsFollow DEF GoOn
<1> QED BY <1>7, <1>8, <1>9, <1>12

(* One version has no more deliveries than all of them together.             *)
LEMMA DeliveriesBound ==
  ASSUME SnapshotTypeOK, NEW v \in Versions
  PROVE  Len(deliveries[v]) \in Nat /\ Deliveries \in Nat /\ Len(deliveries[v]) <= Deliveries
<1>1. \A w \in Versions : Len(deliveries[w]) \in Nat /\ DOMAIN deliveries[w] = 1 .. Len(deliveries[w])
  BY DEF SnapshotTypeOK
<1>2. PICK f : f = [ w \in Versions |-> {w} \X (1 .. Len(deliveries[w])) ]
  OBVIOUS
<1>3. PICK F : F = { {w} \X DOMAIN deliveries[w] : w \in Versions }
  OBVIOUS
<1>4. /\ f \in [ Versions -> F ] /\ \A T \in F : \E w \in Versions : f[w] = T
      /\ F = { {w} \X (1 .. Len(deliveries[w])) : w \in Versions }
  BY <1>1, <1>2, <1>3
<1>5. f \in Surjection(Versions, F)
  BY <1>4, Fun_IsSurj
<1>6. IsFiniteSet(Versions)
  BY LegacySnapshotAssumption, FS_Interval DEF Versions
<1>7. IsFiniteSet(F)
  BY <1>5, <1>6, FS_Surjection
<1>8. \A w \in Versions :
        /\ IsFiniteSet({w} \X (1 .. Len(deliveries[w])))
        /\ Cardinality({w} \X (1 .. Len(deliveries[w]))) = Len(deliveries[w])
  <2> SUFFICES ASSUME NEW w \in Versions
               PROVE  /\ IsFiniteSet({w} \X (1 .. Len(deliveries[w])))
                      /\ Cardinality({w} \X (1 .. Len(deliveries[w]))) = Len(deliveries[w])
    OBVIOUS
  <2>1. Len(deliveries[w]) \in Nat
    BY <1>1
  <2>2. IsFiniteSet(1 .. Len(deliveries[w])) /\ Cardinality(1 .. Len(deliveries[w])) = Len(deliveries[w])
    BY <2>1, FS_Interval
  <2>3. IsFiniteSet({w}) /\ Cardinality({w}) = 1
    BY FS_Singleton
  <2>4. /\ IsFiniteSet({w} \X (1 .. Len(deliveries[w])))
        /\ Cardinality({w} \X (1 .. Len(deliveries[w])))
             = Cardinality({w}) * Cardinality(1 .. Len(deliveries[w]))
    BY <2>2, <2>3, FS_Product
  <2> QED BY <2>1, <2>2, <2>3, <2>4
<1>9. \A T \in F : IsFiniteSet(T)
  BY <1>4, <1>8
<1>10. IsFiniteSet(UNION F)
  BY <1>7, <1>9, FS_UNION
<1>11. {v} \X (1 .. Len(deliveries[v])) \in SUBSET UNION F
  BY <1>4
<1>12. Cardinality({v} \X (1 .. Len(deliveries[v]))) <= Cardinality(UNION F)
  BY <1>10, <1>11, FS_Subset
<1>13. Cardinality(UNION F) \in Nat
  BY <1>10, FS_CardinalityType
<1> QED BY <1>1, <1>3, <1>8, <1>12, <1>13 DEF Deliveries

LEMMA OpenDeliveryInv ==
  ASSUME SnapshotInv, NEW c \in Senders, OpenDelivery(c)
  PROVE  SnapshotInv'
<1> USE DEF SnapshotInv
<1>1. PICK j \in SendJob, v \in Versions :
        /\ j = job[c] /\ j # NoJob /\ j.op = "send" /\ j.step = "loaded"
        /\ v = j.version /\ JobHolds(j)
  BY SendingJob DEF OpenDelivery
<1>2. PICK n \in 1 .. MaxDeliveries : n = Len(deliveries[v]) + 1
  BY DeliveriesBound, LegacySnapshotAssumption DEF OpenDelivery
<1>3. PICK next \in SendJob :
        /\ next = [ j EXCEPT !.step = "sending", !.delivery = n ]
        /\ next.op = "send" /\ next.version = v /\ next.step = "sending"
        /\ next.dry = j.dry /\ next.stored = j.stored /\ next.delivery = n
  <2> DEFINE next == [ j EXCEPT !.step = "sending", !.delivery = n ]
  <2>1. n \in 0 .. MaxDeliveries /\ "sending" \in SendSteps
    BY LegacySnapshotAssumption DEF SendSteps
  <2>2. /\ next \in SendJob
        /\ next.op = "send" /\ next.version = v /\ next.step = "sending"
        /\ next.dry = j.dry /\ next.stored = j.stored /\ next.delivery = n
    BY <1>1, <2>1 DEF SendJob
  <2> QED BY <2>2
<1>4. PICK row : row = Append(deliveries[v], "SENDING")
  OBVIOUS
<1>5. /\ deliveries' = [ deliveries EXCEPT ![v] = row ]
      /\ GoOn(c, next) /\ UNCHANGED << mapped, dryRun, batch, taken >>
  BY <1>1, <1>2, <1>3, <1>4 DEF OpenDelivery
<1>6. /\ row \in Seq(DeliveryStatuses)
      /\ DOMAIN row = 1 .. n /\ DOMAIN deliveries[v] = 1 .. n - 1 /\ n - 1 \in Nat
      /\ row[n] = "SENDING" /\ \A i \in 1 .. n - 1 : row[i] = deliveries[v][i]
  <2>1. deliveries[v] \in Seq(DeliveryStatuses) /\ "SENDING" \in DeliveryStatuses
    BY DEF SnapshotTypeOK, DeliveryStatuses
  <2> QED BY <1>2, <1>4, <2>1, AppendProperties, LenProperties
<1>7. SnapshotTypeOK'
  BY <1>5, <1>6 DEF SnapshotTypeOK, GoOn
<1>8. VersionsExact' /\ DryTakesNothing'
  BY <1>5 DEF VersionsExact, DryTakesNothing, Prepared
<1>9. AcknowledgementsHonest'
  <2>1. ASSUME NEW w \in Versions, NEW i \in DOMAIN deliveries'[w], deliveries'[w][i] = "ACKNOWLEDGED"
        PROVE  w \in taken
    <3>1. CASE w = v
      <4>1. deliveries'[w] = row /\ i \in 1 .. n - 1
        BY <1>5, <1>6, <2>1, <3>1 DEF SnapshotTypeOK
      <4> QED BY <1>6, <2>1, <3>1, <4>1 DEF AcknowledgementsHonest
    <3>2. CASE w # v
      <4>1. deliveries'[w] = deliveries[w]
        BY <1>5, <3>2 DEF SnapshotTypeOK
      <4> QED BY <2>1, <4>1 DEF AcknowledgementsHonest
    <3> QED BY <3>1, <3>2
  <2> QED BY <1>5, <2>1 DEF AcknowledgementsHonest, Prepared
<1>10. Grows
  BY <1>5, <1>6 DEF Grows, Prepared, SnapshotTypeOK
<1>11. JobHolds(next)'
  <2>1. n \in DOMAIN deliveries'[v]
    BY <1>5, <1>6 DEF SnapshotTypeOK
  <2> QED BY <1>1, <1>3, <1>5, <2>1 DEF JobHolds, Prepared
<1>12. JobsHold'
  BY <1>5, <1>10, <1>11, JobsFollow DEF GoOn
<1> QED BY <1>7, <1>8, <1>9, <1>12

(* The status of a batch is saved, or need not be.                           *)
LEMMA SaveBatchInv ==
  ASSUME SnapshotInv, NEW c \in Senders, NEW step, Sending(c, step), step # "loaded",
         NEW status \in BatchStatuses, NEW then \in SendSteps, SaveBatch(c, status, then),
         status = "ACKNOWLEDGED" => job[c].version \in taken,
         then \in { "dry", "noted", "failed" },
         then = "noted" => job[c].version \in taken
  PROVE  SnapshotInv'
<1> USE DEF SnapshotInv
<1>1. PICK j \in SendJob, v \in Versions :
        /\ j = job[c] /\ j # NoJob /\ j.op = "send" /\ j.step = step
        /\ v = j.version /\ JobHolds(j)
  BY SendingJob
<1>2. PICK next \in SendJob :
        /\ next = [ j EXCEPT !.step = then, !.stored = status ]
        /\ next.op = "send" /\ next.version = v /\ next.step = then
        /\ next.dry = j.dry /\ next.delivery = j.delivery
  <2> DEFINE next == [ j EXCEPT !.step = then, !.stored = status ]
  <2>1. /\ next \in SendJob
        /\ next.op = "send" /\ next.version = v /\ next.step = then
        /\ next.dry = j.dry /\ next.delivery = j.delivery
    BY <1>1 DEF SendJob
  <2> QED BY <2>1
<1>3. GoOn(c, next) /\ UNCHANGED << mapped, dryRun, deliveries, taken >>
  BY <1>1, <1>2 DEF SaveBatch
<1>4. Prepared(v) /\ batch[v] \in Batch
  BY <1>1 DEF JobHolds, SnapshotTypeOK, Prepared
<1>5. PICK row \in Batch :
        /\ row.content = batch[v].content
        /\ row.status \in { status, batch[v].status }
        /\ batch' = [ batch EXCEPT ![v] = row ]
  <2>1. CASE j.stored = status
    <3>1. batch' = [ batch EXCEPT ![v] = batch[v] ]
      BY <1>1, <2>1 DEF SaveBatch, SnapshotTypeOK
    <3> QED BY <1>4, <3>1
  <2>2. CASE j.stored # status
    <3> DEFINE row == [ batch[v] EXCEPT !.status = status ]
    <3>1. row \in Batch /\ row.content = batch[v].content /\ row.status = status
      BY <1>4 DEF Batch
    <3>2. batch' = [ batch EXCEPT ![v] = row ]
      BY <1>1, <2>2 DEF SaveBatch, SnapshotTypeOK
    <3> HIDE DEF row
    <3> QED BY <3>1, <3>2
  <2> QED BY <2>1, <2>2
<1>6. row # NoBatch
  BY LegacySnapshotAssumption
<1>7. \A w \in Versions :
        /\ Prepared(w)' <=> Prepared(w)
        /\ Prepared(w) => batch'[w].content = batch[w].content
        /\ batch'[w] = IF w = v THEN row ELSE batch[w]
  BY <1>4, <1>5, <1>6 DEF Prepared, SnapshotTypeOK
<1>8. SnapshotTypeOK'
  BY <1>3, <1>5 DEF SnapshotTypeOK, GoOn
<1>9. VersionsExact'
  <2>1. \A w \in Versions : w > 1 => w - 1 \in Versions
    BY LegacySnapshotAssumption DEF Versions
  <2> QED BY <1>3, <1>7, <2>1 DEF VersionsExact, SnapshotTypeOK
<1>10. AcknowledgementsHonest'
  <2>1. \A w \in taken : batch'[w].content.unmapped = {}
    BY <1>7 DEF AcknowledgementsHonest, VersionsExact, SnapshotTypeOK
  <2>2. ASSUME NEW w \in Versions, Prepared(w)', batch'[w].status = "ACKNOWLEDGED"
        PROVE  w \in taken
    <3>1. CASE w = v /\ row.status = status
      BY <1>1, <1>7, <2>2, <3>1
    <3>2. CASE w # v \/ row.status = batch[v].status
      BY <1>4, <1>7, <2>2, <3>2 DEF AcknowledgementsHonest
    <3> QED BY <1>5, <3>1, <3>2
  <2> QED BY <1>3, <2>1, <2>2 DEF AcknowledgementsHonest
<1>11. DryTakesNothing'
  BY <1>3 DEF DryTakesNothing
<1>12. Grows
  BY <1>3, <1>7 DEF Grows
<1>13. JobHolds(next)'
  <2>1. /\ Prepared(v)' /\ batch'[v].content = batch[v].content
        /\ j.dry \/ batch[v].content.unmapped = {}
        /\ j.dry \/ ~dryRun
        /\ j.delivery \in DOMAIN deliveries[v]
    BY <1>1, <1>4, <1>7 DEF JobHolds
  <2> QED BY <1>1, <1>2, <1>3, <2>1 DEF JobHolds
<1>14. JobsHold'
  BY <1>3, <1>12, <1>13, JobsFollow DEF GoOn
<1> QED BY <1>8, <1>9, <1>10, <1>11, <1>14

(* The status of a delivery is saved.                                        *)
LEMMA SaveDeliveryInv ==
  ASSUME SnapshotInv, NEW c \in Senders, NEW step, Sending(c, step), step # "loaded",
         NEW status \in DeliveryStatuses, status = "ACKNOWLEDGED" => job[c].version \in taken,
         NEW next \in SendJob \cup {NoJob}, JobHolds(next), SaveDelivery(c, status, next)
  PROVE  SnapshotInv'
<1> USE DEF SnapshotInv
<1>1. PICK v \in Versions, n \in Nat :
        v = job[c].version /\ n = job[c].delivery /\ n \in 1 .. Len(deliveries[v])
  BY SendingJob
<1>2. PICK row : row = [ deliveries[v] EXCEPT ![n] = status ]
  OBVIOUS
<1>3. /\ deliveries' = [ deliveries EXCEPT ![v] = row ]
      /\ GoOn(c, next) /\ UNCHANGED << mapped, dryRun, batch, taken >>
  BY <1>1, <1>2 DEF SaveDelivery
<1>4. /\ row \in Seq(DeliveryStatuses) /\ DOMAIN row = DOMAIN deliveries[v]
      /\ \A i \in DOMAIN row : row[i] = IF i = n THEN status ELSE deliveries[v][i]
  <2>1. deliveries[v] \in Seq(DeliveryStatuses)
    BY DEF SnapshotTypeOK
  <2> QED BY <1>1, <1>2, <2>1, ExceptSeq, LenProperties
<1>5. \A w \in Versions : deliveries'[w] = IF w = v THEN row ELSE deliveries[w]
  BY <1>3 DEF SnapshotTypeOK
<1>6. SnapshotTypeOK'
  BY <1>3, <1>4 DEF SnapshotTypeOK, GoOn
<1>7. VersionsExact' /\ DryTakesNothing'
  BY <1>3 DEF VersionsExact, DryTakesNothing, Prepared
<1>8. AcknowledgementsHonest'
  <2>1. ASSUME NEW w \in Versions, NEW i \in DOMAIN deliveries'[w], deliveries'[w][i] = "ACKNOWLEDGED"
        PROVE  w \in taken
    <3>1. CASE w = v /\ i = n
      BY <1>1, <1>4, <1>5, <2>1, <3>1
    <3>2. CASE ~(w = v /\ i = n)
      BY <1>4, <1>5, <2>1, <3>2 DEF AcknowledgementsHonest
    <3> QED BY <3>1, <3>2
  <2> QED BY <1>3, <2>1 DEF AcknowledgementsHonest, Prepared
<1>9. Grows
  BY <1>3, <1>4, <1>5 DEF Grows, Prepared
<1>10. JobHolds(next)'
  <2>1. CASE next = NoJob
    BY <2>1 DEF JobHolds
  <2>2. CASE next # NoJob /\ next.op = "send"
    <3>1. next.version \in Versions
      BY <2>2, VersionsOfJobs
    <3> QED BY <1>9, <2>2, <3>1 DEF JobHolds, Grows
  <2>3. CASE next # NoJob /\ next.op # "send"
    BY <2>3 DEF SendJob
  <2> QED BY <2>1, <2>2, <2>3
<1>11. JobsHold'
  BY <1>3, <1>9, <1>10, JobsFollow DEF GoOn
<1> QED BY <1>6, <1>7, <1>8, <1>11

LEMMA NotesInv ==
  ASSUME SnapshotInv, NEW c \in Senders,
         \/ NoteDryRun(c) \/ FinishDryRun(c) \/ NoteAcknowledgement(c) \/ SettleDelivery(c)
         \/ NoteFailure(c) \/ FailDelivery(c)
  PROVE  SnapshotInv'
<1>1. CASE NoteDryRun(c)
  BY <1>1, SaveBatchInv DEF NoteDryRun, SendSteps, BatchStatuses
<1>2. CASE FinishDryRun(c)
  <2>1. JobHolds(NoJob)
    BY DEF JobHolds
  <2> QED BY <1>2, <2>1, SaveDeliveryInv DEF FinishDryRun, DeliveryStatuses
<1>3. CASE NoteAcknowledgement(c)
  <2>1. Sending(c, "answered")
    BY <1>3 DEF NoteAcknowledgement
  <2>2. job[c].version \in taken
    BY <2>1, SendingJob DEF JobHolds
  <2> QED BY <1>3, <2>1, <2>2, SaveBatchInv DEF NoteAcknowledgement, SendSteps, BatchStatuses
<1>4. CASE SettleDelivery(c)
  <2>1. Sending(c, "noted")
    BY <1>4 DEF SettleDelivery
  <2>2. PICK j \in SendJob :
          /\ j = job[c] /\ j # NoJob /\ j.op = "send" /\ j.step = "noted"
          /\ j.version \in Versions /\ JobHolds(j)
    BY <2>1, SendingJob
  <2>3. "settled" \in SendSteps
    BY DEF SendSteps
  <2>4. PICK next \in SendJob :
          /\ next = [ j EXCEPT !.step = "settled" ]
          /\ next.op = "send" /\ next.version = j.version /\ next.step = "settled"
          /\ next.dry = j.dry /\ next.delivery = j.delivery
    BY <2>3, JobMoves
  <2>5. JobHolds(next)
    BY <2>2, <2>4 DEF JobHolds
  <2>6. SaveDelivery(c, "ACKNOWLEDGED", next)
    BY <1>4, <2>2, <2>4 DEF SettleDelivery
  <2>7. job[c].version \in taken /\ "ACKNOWLEDGED" \in DeliveryStatuses
    BY <2>2 DEF JobHolds, DeliveryStatuses
  <2> QED BY <2>1, <2>5, <2>6, <2>7, SaveDeliveryInv
<1>5. CASE NoteFailure(c)
  <2>1. PICK step \in { "refused", "unnoted" } : Sending(c, step)
    BY <1>5 DEF NoteFailure
  <2> QED BY <1>5, <2>1, SaveBatchInv DEF NoteFailure, SendSteps, BatchStatuses
<1>6. CASE FailDelivery(c)
  <2>1. JobHolds(NoJob)
    BY DEF JobHolds
  <2> QED BY <1>6, <2>1, SaveDeliveryInv DEF FailDelivery, DeliveryStatuses
<1> QED BY <1>1, <1>2, <1>3, <1>4, <1>5, <1>6

LEMMA JobStepInv ==
  ASSUME SnapshotInv, LeaveTypeOK, NEW c \in Senders, JobStep(c)
  PROVE  SnapshotInv'
  BY PrepareReadsInv, InsertBatchInv, LoadBatchInv, OpenDeliveryInv, AnswersInv, PostInv, NotesInv
  DEF JobStep

LEMMA SurroundingsInv ==
  ASSUME SnapshotInv, (\E p \in Persons : MapPerson(p)) \/ GoLive
  PROVE  SnapshotInv'
<1> USE DEF SnapshotInv
<1>1. CASE \E p \in Persons : MapPerson(p)
  <2>1. SnapshotTypeOK' /\ VersionsExact' /\ AcknowledgementsHonest' /\ DryTakesNothing'
    BY <1>1 DEF MapPerson, SnapshotTypeOK, VersionsExact, AcknowledgementsHonest, DryTakesNothing, Prepared
  <2>2. JobsHold'
    BY <1>1 DEF MapPerson, JobsHold, JobHolds, Prepared
  <2> QED BY <2>1, <2>2
<1>2. CASE GoLive
  <2>1. SnapshotTypeOK' /\ VersionsExact' /\ AcknowledgementsHonest' /\ DryTakesNothing'
    BY <1>2 DEF GoLive, SnapshotTypeOK, VersionsExact, AcknowledgementsHonest, DryTakesNothing, Prepared
  <2>2. JobsHold'
    BY <1>2 DEF GoLive, JobsHold, JobHolds, Prepared
  <2> QED BY <2>1, <2>2
<1> QED BY <1>1, <1>2

(***************************************************************************)
(* Theorems.                                                               *)
(***************************************************************************)
Inv == LeaveInv /\ SnapshotInv

LEMMA NextSplits ==
  [Next]_vars =>
    /\ [LeaveNext]_leaveVars
    /\ \/ \E c \in Senders : JobStep(c)
       \/ (\E p \in Persons : MapPerson(p)) \/ GoLive
       \/ UNCHANGED snapshotVars
  BY DEF Next, vars, LeaveNext

LEMMA NextInv == Inv /\ [Next]_vars => Inv'
<1> SUFFICES ASSUME Inv, [Next]_vars PROVE Inv'
  OBVIOUS
<1>1. LeaveInv' /\ LeaveTypeOK
  BY NextSplits, LeaveNextInv DEF Inv, LeaveInv
<1>2. SnapshotInv'
  BY <1>1, NextSplits, JobStepInv, SurroundingsInv, SnapshotStays DEF Inv
<1> QED BY <1>1, <1>2 DEF Inv

LEMMA InvCorrect == Spec => []Inv
<1>1. Init => Inv
  BY LeaveInitInv, SnapshotInitInv DEF Init, Inv
<1> QED BY <1>1, NextInv, PTL DEF Spec

(* Rows, deliveries and requests in progress keep their types.               *)
THEOREM TypeCorrect == Spec => []TypeOK
<1>1. Inv => TypeOK
  BY DEF Inv, LeaveInv, SnapshotInv, SnapshotTypeOK, TypeOK
<1> QED BY <1>1, InvCorrect, PTL

(* Revisions, events and row of a leave tell one of the legal histories,     *)
(* whatever transitions race.                                                *)
THEOREM HistoryCorrect == Spec => []HistoryExact
<1>1. Inv => HistoryExact
  BY DEF Inv, LeaveInv
<1> QED BY <1>1, InvCorrect, PTL

(* Confirmed leaves of a person overlap only when neither confirmation could *)
(* see the other.                                                            *)
THEOREM ConfirmedOverlapCorrect == Spec => []ConfirmedOverlapOnlyByRace
<1>1. Inv => ConfirmedOverlapOnlyByRace
  BY DEF Inv, LeaveInv
<1> QED BY <1>1, InvCorrect, PTL

(* The versions of a month have no gap and no content twice.                 *)
THEOREM VersionsCorrect == Spec => []VersionsExact
<1>1. Inv => VersionsExact
  BY DEF Inv, SnapshotInv
<1> QED BY <1>1, InvCorrect, PTL

(* Special takes no leave of a person it does not know, and what is said to  *)
(* be acknowledged was taken.                                                *)
THEOREM AcknowledgementsCorrect == Spec => []AcknowledgementsHonest
<1>1. Inv => AcknowledgementsHonest
  BY DEF Inv, SnapshotInv
<1> QED BY <1>1, InvCorrect, PTL

(* Who overwrites an acknowledgement had loaded the batch before, in another *)
(* status than the one it notes, or failed to write the rest.                *)
LEMMA AcknowledgementLoses == Inv /\ [Next]_vars => StepsOver
<1> SUFFICES ASSUME Inv, [Next]_vars, NEW v \in Versions, Prepared(v),
                    batch[v].status = "ACKNOWLEDGED", batch'[v].status # "ACKNOWLEDGED"
             PROVE  \E c \in Senders :
                      /\ Doing(c, "send") /\ job[c].version = v
                      /\ \/ job[c].step = "refused" /\ job[c].stored \in { "PENDING", "DRY_RUN" }
                         \/ /\ job[c].step = "sending" /\ job[c].stored \in { "PENDING", "FAILED" }
                            /\ job[c].dry /\ ~dryRun
                         \/ job[c].step = "unnoted"
  BY DEF StepsOver
<1> USE DEF Inv, SnapshotInv
<1>1. v \in taken /\ ~dryRun
  BY DEF AcknowledgementsHonest, DryTakesNothing
<1>2. PICK c \in Senders : JobStep(c)
  BY NextSplits DEF MapPerson, GoLive, snapshotVars
<1>3. NoteDryRun(c) \/ NoteAcknowledgement(c) \/ NoteFailure(c) \/ InsertBatch(c)
  BY <1>2 DEF JobStep, ReadLeaves, LookUpMapping, FindExisting, ChooseVersion, LoadBatch, OpenDelivery, FinishDryRun, Post,
              SettleDelivery, SaveDelivery, FinishSend, FailToNote, FailDelivery, Vanish
<1>5. CASE InsertBatch(c)
  <2>1. job[c].version # v
    BY <1>5 DEF InsertBatch
  <2>2. batch'[v] = batch[v]
    BY <1>5, <2>1 DEF InsertBatch, SnapshotTypeOK
  <2> QED BY <2>2
<1>6. ASSUME NEW status, NEW then, SaveBatch(c, status, then)
      PROVE  job[c].version = v /\ status # "ACKNOWLEDGED" /\ job[c].stored # status
  <2>1. batch' = [ batch EXCEPT ![job[c].version].status = status ] /\ job[c].stored # status
    BY <1>6 DEF SaveBatch
  <2>2. job[c].version = v
    BY <2>1 DEF SnapshotTypeOK
  <2>3. batch[v] \in Batch
    BY DEF SnapshotTypeOK, Prepared
  <2> QED BY <2>1, <2>2, <2>3 DEF SnapshotTypeOK, Batch
<1>7. ~NoteAcknowledgement(c)
  BY <1>6 DEF NoteAcknowledgement
<1>4. CASE NoteDryRun(c)
  <2>1. job[c].version = v /\ job[c].stored # "DRY_RUN"
    BY <1>4, <1>6 DEF NoteDryRun
  <2>2. Sending(c, "sending") /\ job[c].dry
    BY <1>4 DEF NoteDryRun
  <2>3. /\ job[c] \in SendJob /\ job[c].step = "sending" /\ JobHolds(job[c])
        /\ job[c] # NoJob /\ job[c].op = "send"
    BY <2>2, SendingJob
  <2>4. job[c].stored \in { "PENDING", "FAILED" }
    BY <2>1, <2>3 DEF JobHolds, SendJob, BatchStatuses
  <2> QED BY <1>1, <2>1, <2>2, <2>3, <2>4 DEF Doing
<1>8. CASE NoteFailure(c)
  <2>1. job[c].version = v /\ job[c].stored # "FAILED"
    BY <1>6, <1>8 DEF NoteFailure
  <2>2. PICK step \in { "refused", "unnoted" } : Sending(c, step)
    BY <1>8 DEF NoteFailure
  <2>3. job[c] \in SendJob /\ job[c].step = step /\ JobHolds(job[c]) /\ job[c] # NoJob /\ job[c].op = "send"
    BY <2>2, SendingJob
  <2>4. step = "refused" => job[c].stored \in { "PENDING", "DRY_RUN" }
    BY <2>1, <2>3 DEF JobHolds, SendJob, BatchStatuses
  <2> QED BY <2>1, <2>2, <2>3, <2>4 DEF Doing
<1> QED BY <1>3, <1>4, <1>5, <1>7, <1>8

(* An acknowledgement is lost only by a race, or by a failure after it.      *)
THEOREM AcknowledgementLostCorrect == Spec => AcknowledgementLostOnlyByRace
<1>1. Inv /\ [Next]_vars => [StepsOver]_vars
  BY AcknowledgementLoses
<1> QED BY <1>1, InvCorrect, PTL DEF Spec, AcknowledgementLostOnlyByRace
=============================================================================
