------------------------- MODULE LeaveWorkflowProofs -------------------------
(***************************************************************************)
(* LeaveRequests implements LeaveWorkflow, for any sets of accounts,       *)
(* leaves and concurrent requests: the revision log of every leave, read   *)
(* as a history of statuses, is an append-only walk of the lifecycle.  The *)
(* invariant makes the log a function of the revision number; a commit     *)
(* then appends one status to one history, and other steps stutter.        *)
(***************************************************************************)
EXTENDS LeaveRequestsProofs

(* The refinement mapping.                                                   *)
Histories == [l \in Leaves |-> History(l)]

-----------------------------------------------------------------------------
(* A function from 1..n is a sequence of length n.                           *)
LEMMA FunctionIsSequence ==
  ASSUME NEW S, NEW n \in Nat, NEW f \in [1 .. n -> S]
  PROVE  f \in Seq(S) /\ Len(f) = n
OBVIOUS

(* The row that CHOOSE picks is the one with that number.                    *)
LEMMA ChosenStatus ==
  ASSUME NEW rows, NEW l, NEW n, NEW r \in rows, r.leave = l, r.revision = n,
         \A q \in rows : (q.leave = l /\ q.revision = n) => q = r
  PROVE  (CHOOSE q \in rows : q.leave = l /\ q.revision = n).status = r.status
<1> DEFINE chosen == CHOOSE q \in rows : q.leave = l /\ q.revision = n
<1>1. chosen \in rows /\ chosen.leave = l /\ chosen.revision = n
  OBVIOUS
<1> QED
  BY <1>1

(* What the history of a leave is.                                           *)
HistoryListsLog(l) ==
  /\ version[l] \in Nat
  /\ History(l) \in Seq(Statuses)
  /\ Len(History(l)) = version[l]
  /\ \A r \in revisions : r.leave = l =>
       r.revision \in 1 .. version[l] /\ History(l)[r.revision] = r.status
  /\ \A n \in 1 .. version[l] :
       \E r \in revisions : r.leave = l /\ r.revision = n

HistoriesListLogs == \A l \in Leaves : HistoryListsLog(l)

(* Where the log is exact, the history lists its statuses by number.         *)
LEMMA HistoryOfLog == Inv => HistoriesListLogs
<1> SUFFICES ASSUME Inv, NEW l \in Leaves PROVE HistoryListsLog(l)
  BY DEF HistoriesListLogs
<1>1. version[l] \in Nat /\ revisions \subseteq Revision
  BY DEF Inv, TypeOK
<1>2. \A n \in 1 .. version[l] : \E r \in revisions : r.leave = l /\ r.revision = n
  BY DEF Inv, RevisionLogExact, RevisionsOf
<1>3. \A r \in revisions : r.leave = l =>
        /\ r.revision \in 1 .. version[l]
        /\ \A q \in revisions : (q.leave = l /\ q.revision = r.revision) => q = r
  BY DEF Inv, RevisionLogExact, RevisionsOf
<1>4. ASSUME NEW r \in revisions, r.leave = l
      PROVE  r.revision \in 1 .. version[l] /\ History(l)[r.revision] = r.status
  <2>1. r.revision \in 1 .. version[l]
    BY <1>3, <1>4
  <2>2. History(l)[r.revision] =
          (CHOOSE q \in revisions : q.leave = l /\ q.revision = r.revision).status
    BY <2>1 DEF History
  <2>3. \A q \in revisions : (q.leave = l /\ q.revision = r.revision) => q = r
    BY <1>3, <1>4
  <2> QED
    BY <1>4, <2>1, <2>2, <2>3, ChosenStatus
<1>5. \A n \in 1 .. version[l] : History(l)[n] \in Statuses
  <2> SUFFICES ASSUME NEW n \in 1 .. version[l] PROVE History(l)[n] \in Statuses
    OBVIOUS
  <2> PICK r \in revisions : r.leave = l /\ r.revision = n
    BY <1>2
  <2> QED
    BY <1>1, <1>4 DEF Revision
<1>6. History(l) \in [1 .. version[l] -> Statuses]
  <2>1. /\ DOMAIN History(l) = 1 .. version[l]
        /\ History(l) = [n \in 1 .. version[l] |-> History(l)[n]]
    BY DEF History
  <2> QED
    BY <1>5, <2>1
<1>7. History(l) \in Seq(Statuses) /\ Len(History(l)) = version[l]
  BY <1>1, <1>6, FunctionIsSequence
<1> QED
  BY <1>1, <1>2, <1>4, <1>7 DEF HistoryListsLog

(* A step that changes neither a row's version nor its revisions keeps its   *)
(* history.                                                                  *)
LEMMA HistoryKept ==
  ASSUME NEW l \in Leaves, HistoryListsLog(l), HistoryListsLog(l)',
         version'[l] = version[l], revisions \subseteq revisions'
  PROVE  History(l)' = History(l)
<1>1. ASSUME NEW n \in 1 .. version[l]
      PROVE  History(l)'[n] = History(l)[n]
  <2> PICK r \in revisions : r.leave = l /\ r.revision = n
    BY DEF HistoryListsLog
  <2>1. History(l)[n] = r.status
    BY DEF HistoryListsLog
  <2>2. History(l)'[n] = r.status
    BY DEF HistoryListsLog
  <2> QED
    BY <2>1, <2>2
<1>2. History(l) \in Seq(Statuses) /\ History(l)' \in Seq(Statuses)
  BY DEF HistoryListsLog, Statuses
<1>3. Len(History(l)) = version[l] /\ Len(History(l)') = version[l]
  BY DEF HistoryListsLog
<1> QED
  BY <1>1, <1>2, <1>3, SeqEqual

(* A step that adds one revision to a row appends its status to the history. *)
LEMMA HistoryGrows ==
  ASSUME NEW l \in Leaves, HistoryListsLog(l), HistoryListsLog(l)',
         version'[l] = version[l] + 1, revisions \subseteq revisions',
         NEW s \in Statuses,
         \E r \in revisions' : r.leave = l /\ r.revision = version[l] + 1 /\ r.status = s
  PROVE  History(l)' = Append(History(l), s)
<1>1. /\ History(l) \in Seq(Statuses) /\ Len(History(l)) = version[l]
      /\ version[l] \in Nat
  BY DEF HistoryListsLog
<1>2. History(l)' \in Seq(Statuses) /\ Len(History(l)') = version[l] + 1
  BY DEF HistoryListsLog, Statuses
<1>3. /\ Append(History(l), s) \in Seq(Statuses)
      /\ Len(Append(History(l), s)) = version[l] + 1
      /\ \A n \in 1 .. version[l] : Append(History(l), s)[n] = History(l)[n]
      /\ Append(History(l), s)[version[l] + 1] = s
  BY <1>1, AppendProperties
<1>4. ASSUME NEW n \in 1 .. version[l]
      PROVE  History(l)'[n] = History(l)[n]
  <2> PICK r \in revisions : r.leave = l /\ r.revision = n
    BY DEF HistoryListsLog
  <2>1. History(l)[n] = r.status
    BY DEF HistoryListsLog
  <2>2. History(l)'[n] = r.status
    BY DEF HistoryListsLog
  <2> QED
    BY <2>1, <2>2
<1>5. History(l)'[version[l] + 1] = s
  BY DEF HistoryListsLog
<1>6. \A n \in 1 .. version[l] + 1 : History(l)'[n] = Append(History(l), s)[n]
  <2> SUFFICES ASSUME NEW n \in 1 .. version[l] + 1
               PROVE  History(l)'[n] = Append(History(l), s)[n]
    OBVIOUS
  <2>1. CASE n = version[l] + 1
    BY <1>3, <1>5, <2>1
  <2>2. CASE n # version[l] + 1
    <3>1. n \in 1 .. version[l]
      BY <1>1, <2>2
    <3> QED
      BY <1>3, <1>4, <3>1
  <2> QED
    BY <2>1, <2>2
<1> QED
  BY <1>2, <1>3, <1>6, SeqEqual

-----------------------------------------------------------------------------
(* A commit that adds revision number version + 1 of one leave appends that  *)
(* revision's status to one history and leaves the others alone.             *)
LEMMA OneHistoryGrows ==
  ASSUME Inv, Inv', NEW l \in Leaves, NEW s \in Statuses, NEW u, NEW lent,
         version'[l] = version[l] + 1,
         \A m \in Leaves \ {l} : version'[m] = version[m],
         revisions' = revisions \cup
           {[leave |-> l, revision |-> version[l] + 1, status |-> s, by |-> u,
             lent |-> lent]}
  PROVE  Histories' = [Histories EXCEPT ![l] = Append(@, s)]
<1>1. \A m \in Leaves : HistoryListsLog(m)
  BY HistoryOfLog DEF HistoriesListLogs
<1>2. \A m \in Leaves : HistoryListsLog(m)'
  <2>1. HistoriesListLogs'
    BY HistoryOfLog, PTL
  <2> QED
    BY <2>1 DEF HistoriesListLogs
<1>3. History(l)' = Append(History(l), s)
  <2> DEFINE new == [leave |-> l, revision |-> version[l] + 1, status |-> s, by |-> u,
                     lent |-> lent]
  <2>0. new.leave = l /\ new.revision = version[l] + 1 /\ new.status = s
    OBVIOUS
  <2>1. \E r \in revisions' : r.leave = l /\ r.revision = version[l] + 1 /\ r.status = s
    <3>1. new \in revisions'
      OBVIOUS
    <3> QED
      BY <2>0, <3>1
  <2>2. revisions \subseteq revisions'
    OBVIOUS
  <2> QED
    BY <1>1, <1>2, <2>1, <2>2, HistoryGrows
<1>4. \A m \in Leaves \ {l} : History(m)' = History(m)
  BY <1>1, <1>2, HistoryKept
<1>5. Histories' = [m \in Leaves |-> History(m)']
  BY DEF Histories
<1>6. [Histories EXCEPT ![l] = Append(@, s)] =
        [m \in Leaves |-> IF m = l THEN Append(History(l), s) ELSE History(m)]
  BY DEF Histories
<1> HIDE DEF Histories
<1> QED
  BY <1>3, <1>4, <1>5, <1>6

(* A step that changes no revision changes no history.                       *)
LEMMA HistoriesKept ==
  ASSUME revisions' = revisions, version' = version
  PROVE  Histories' = Histories
BY DEF Histories, History

(* createDraft's commit opens a history.                                     *)
LEMMA CreateOpens ==
  ASSUME Inv, Inv', NEW c \in Calls, CommitCreateDraft(c)
  PROVE  \E l \in Leaves : Workflow!Open(l)
<1> PICK l \in Leaves :
      /\ ~Created(l)
      /\ version' = [version EXCEPT ![l] = 1]
      /\ revisions' = revisions \cup
           {[leave |-> l, revision |-> 1, status |-> "DRAFT", by |-> call[c].user,
             lent |-> {}]}
  BY DEF CommitCreateDraft
<1>1. version[l] = 0 /\ version \in [Leaves -> Nat]
  BY DEF Inv, RowsExact, TypeOK
<1>2. Histories' = [Histories EXCEPT ![l] = Append(@, "DRAFT")]
  <2>1. version'[l] = version[l] + 1 /\ \A m \in Leaves \ {l} : version'[m] = version[m]
    BY <1>1
  <2>2. "DRAFT" \in Statuses
    BY DEF Statuses
  <2> QED
    BY <1>1, <2>1, <2>2, OneHistoryGrows
<1>3. Histories[l] = << >>
  <2>1. History(l) \in Seq(Statuses) /\ Len(History(l)) = 0
    BY <1>1, HistoryOfLog DEF HistoriesListLogs, HistoryListsLog
  <2> QED
    BY <2>1, EmptySeq DEF Histories
<1>4. Histories' = [Histories EXCEPT ![l] = << "DRAFT" >>]
  <2>1. Append(<< >>, "DRAFT") = << "DRAFT" >>
    OBVIOUS
  <2> QED
    BY <1>2, <1>3, <2>1
<1> QED
  BY <1>3, <1>4 DEF Workflow!Open, Histories

(* The commit of a change makes one legal move from the history's end.       *)
LEMMA ChangeMoves ==
  ASSUME Inv, Inv', NEW c \in Calls, NEW op \in {"submit", "paper", "cancel", "void"},
         WriteChange(c, op)
  PROVE  \E l \in Leaves : \E move \in Workflow!LegalMoves : Workflow!Move(l, move[2])
<1> PICK k \in ChangeCall : k = call[c] /\ ChangeIsJustified(k)
  BY WriteChangeFacts
<1> PICK l \in Leaves : l = k.leave
  BY WriteChangeFacts
<1>1. /\ Created(l) /\ status[l] = k.from
      /\ version'[l] = version[l] + 1
      /\ \A m \in Leaves \ {l} : version'[m] = version[m]
      /\ revisions' = revisions \cup
           {[leave |-> l, revision |-> version[l] + 1, status |-> k.to, by |-> k.user,
             lent |-> k.lent]}
  BY WriteChangeFacts
<1>2. k.to \in Statuses /\ << k.from, k.to >> \in Workflow!LegalMoves
  BY DEF ChangeCall, ChangeIsJustified
<1>3. Histories' = [Histories EXCEPT ![l] = Append(@, k.to)]
  BY <1>1, <1>2, OneHistoryGrows
<1>4. /\ Len(Histories[l]) = version[l] /\ version[l] > 0
      /\ Histories[l][version[l]] = k.from
  <2>1. version[l] > 0
    BY <1>1 DEF Inv, RowsExact
  <2>2. HistoryListsLog(l) /\ Histories[l] = History(l)
    BY HistoryOfLog DEF HistoriesListLogs, Histories
  <2> PICK r \in revisions : r.leave = l /\ r.revision = version[l]
    BY <2>1, <2>2 DEF HistoryListsLog
  <2>3. r.status = status[l]
    BY DEF Inv, RevisionLogExact, RevisionsOf
  <2> QED
    BY <1>1, <2>1, <2>2, <2>3 DEF HistoryListsLog
<1>5. Histories[l] # << >>
  BY <1>4, EmptySeq
<1>6. << Histories[l][Len(Histories[l])], k.to >> \in Workflow!LegalMoves
  BY <1>2, <1>4
<1>7. Workflow!Move(l, k.to)
  BY <1>3, <1>5, <1>6 DEF Workflow!Move, Histories
<1> QED
  BY <1>2, <1>7

-----------------------------------------------------------------------------
(* Every step makes a step of the lifecycle, or none.                        *)
LEMMA NextSimulates ==
  Inv /\ Inv' /\ [Next]_vars => [Workflow!Next]_Histories
<1> SUFFICES ASSUME Inv, Inv', [Next]_vars PROVE Workflow!Next \/ Histories' = Histories
  OBVIOUS
<1>1. ASSUME NEW c \in Calls, CommitCreateDraft(c)
      PROVE  Workflow!Next
  BY <1>1, CreateOpens DEF Workflow!Next
<1>2. ASSUME NEW c \in Calls,
             \/ CommitSubmit(c) \/ CommitCancel(c) \/ CommitPaperResult(c) \/ CommitVoid(c)
      PROVE  Workflow!Next
  <2>1. PICK op \in {"submit", "paper", "cancel", "void"} : WriteChange(c, op)
    BY <1>2 DEF CommitSubmit, CommitCancel, CommitPaperResult, CommitVoid
  <2> QED
    BY <2>1, ChangeMoves DEF Workflow!Next
<1>3. ASSUME NEW c \in Calls, NEW u \in Users,
             \/ \E f \in Form : BeginCreateDraft(c, u, f)
             \/ \E l \in Leaves : BeginSubmit(c, u, l)
             \/ \E l \in Leaves : BeginCancel(c, u, l)
             \/ \E l \in Leaves, result \in PaperResults, days \in DayCounts :
                  BeginPaperResult(c, u, l, result, days)
             \/ \E l \in Leaves : BeginVoid(c, u, l)
      PROVE  Histories' = Histories
  <2>1. revisions' = revisions /\ version' = version
    BY <1>3 DEF BeginCreateDraft, BeginSubmit, BeginCancel, BeginPaperResult, BeginVoid,
                Remember, rowVars, trailVars
  <2> QED
    BY <2>1, HistoriesKept
<1>4. ASSUME NEW c \in Calls, AbandonCall(c)
      PROVE  Histories' = Histories
  BY <1>4, HistoriesKept DEF AbandonCall, rowVars, trailVars
<1>5. CASE LeaveNext
  BY <1>1, <1>2, <1>3, <1>4, <1>5 DEF LeaveNext
<1>6. CASE UNCHANGED leaveVars
  BY <1>6, HistoriesKept DEF leaveVars, rowVars, trailVars
<1> QED
  BY <1>5, <1>6 DEF Next, vars

(* Initially every history is empty.                                         *)
LEMMA InitSimulates == Init => Workflow!Init
<1> SUFFICES ASSUME Init PROVE Workflow!Init
  OBVIOUS
<1>1. \A l \in Leaves : History(l) = << >>
  <2> SUFFICES ASSUME NEW l \in Leaves PROVE History(l) = << >>
    OBVIOUS
  <2>1. HistoryListsLog(l) /\ version[l] = 0
    BY InitInv, HistoryOfLog DEF Init, HistoriesListLogs
  <2> QED
    BY <2>1, EmptySeq DEF HistoryListsLog
<1> QED
  BY <1>1 DEF Workflow!Init

(* The revision log of every leave is an append-only walk of the lifecycle:  *)
(* LeaveService implements the abstract workflow.                            *)
THEOREM WorkflowRefined == Spec => RefinesWorkflow
<1>1. Inv /\ Inv' /\ [Next]_vars =>
        [Workflow!Next]_([l \in Leaves |-> History(l)])
  BY NextSimulates DEF Histories
<1> QED
  BY <1>1, InitSimulates, InvCorrect, PTL DEF Spec, RefinesWorkflow, Workflow!Spec
=============================================================================
