---------------------------- MODULE LeaveWorkflow ----------------------------
(***************************************************************************)
(* What the leave component promises, one leave at a time: its history is  *)
(* an append-only list of statuses that walks the Paper-first lifecycle    *)
(*                                                                         *)
(*    DRAFT -> SUBMITTED -> PAPER_APPROVED -> VOIDED                       *)
(*      |          |------> PAPER_REJECTED                                 *)
(*      +----------+------> CANCELLED                                      *)
(*                                                                         *)
(* and nothing is ever removed from it or rewritten.                       *)
(***************************************************************************)
EXTENDS Integers, Sequences

CONSTANT Leaves

VARIABLE history    \* the statuses each leave has had, oldest first

LegalMoves ==
  { << "DRAFT", "SUBMITTED" >>, << "DRAFT", "CANCELLED" >>,
    << "SUBMITTED", "PAPER_APPROVED" >>, << "SUBMITTED", "PAPER_REJECTED" >>,
    << "SUBMITTED", "CANCELLED" >>, << "PAPER_APPROVED", "VOIDED" >> }

Init == history = [l \in Leaves |-> << >>]

(* A leave that has no history yet is opened as a draft.                     *)
Open(l) ==
  /\ history[l] = << >>
  /\ history' = [history EXCEPT ![l] = << "DRAFT" >>]

(* A leave moves to a status the lifecycle allows after its present one.     *)
Move(l, to) ==
  /\ history[l] # << >>
  /\ << history[l][Len(history[l])], to >> \in LegalMoves
  /\ history' = [history EXCEPT ![l] = Append(@, to)]

Next == \E l \in Leaves :
          Open(l) \/ \E move \in LegalMoves : Move(l, move[2])

Spec == Init /\ [][Next]_history
=============================================================================
