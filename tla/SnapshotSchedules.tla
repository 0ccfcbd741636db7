-------------------------- MODULE SnapshotSchedules --------------------------
(***************************************************************************)
(* LeaveSnapshotScheduleService: each affiliation has at most one monthly  *)
(* schedule (a unique key), with a configuration and a status.  A draft is *)
(* approved before the worker may use it; an approved one is paused before *)
(* it may be changed.  Every request reads the schedule first and later    *)
(* updates it by id, unconditionally: other requests run in between.       *)
(*                                                                         *)
(* The requests are those of accounts that may manage the affiliation's    *)
(* schedule; the scope matrix itself is the module Permissions.            *)
(***************************************************************************)
EXTENDS Integers

CONSTANTS
  Affiliations,
  CutoffDays,      \* the values of cutoffDays that requests name
  Contracts,       \* contract versions, in the order they are deployed
  AdminCalls,      \* slots for schedule requests in progress
  NoSchedule,      \* a schedule row that does not exist
  Idle             \* an unused request slot

Configuration == [ cutoffDays : CutoffDays, contract : Contracts ]
ScheduleStatuses == { "DRAFT", "APPROVED", "PAUSED" }

(* signed: approvedBy and approvedAt are set.                                *)
Schedule == [ config : Configuration, status : ScheduleStatuses, signed : BOOLEAN ]

(* What a request has read: upsertDraft, whether the row exists; approve,    *)
(* the configuration it checked (overtaken is not the code's: the row has    *)
(* been configured anew since).                                              *)
UpsertCall ==
  [ op : {"upsert"}, affiliation : Affiliations, config : Configuration, exists : BOOLEAN ]
Review == [ config : Configuration, overtaken : BOOLEAN ]
ApproveCall == [ op : {"approve"}, affiliation : Affiliations, review : Review ]
PauseCall == [ op : {"pause"}, affiliation : Affiliations ]
ScheduleCall == UpsertCall \cup ApproveCall \cup PauseCall

ASSUME ScheduleAssumption ==
  /\ CutoffDays \subseteq 0 .. 31
  /\ Contracts \subseteq Nat
  /\ NoSchedule \notin Schedule \cup Review
  /\ Idle \notin ScheduleCall

VARIABLES
  schedule,    \* LeaveSnapshotSchedule rows, by affiliation (a unique key)
  adminCall,   \* what each request in progress has read
  contract,    \* the contract version the processes are configured with
  reviewed     \* history: what the last approval checked

scheduleVars == << schedule, adminCall, contract, reviewed >>

ScheduleTypeOK ==
  /\ schedule \in [Affiliations -> Schedule \cup {NoSchedule}]
  /\ adminCall \in [AdminCalls -> ScheduleCall \cup {Idle}]
  /\ contract \in Contracts
  /\ reviewed \in [Affiliations -> Review \cup {NoSchedule}]

ScheduleInit ==
  /\ schedule = [a \in Affiliations |-> NoSchedule]
  /\ adminCall = [k \in AdminCalls |-> Idle]
  /\ contract \in {v \in Contracts : \A w \in Contracts : v <= w}
  /\ reviewed = [a \in Affiliations |-> NoSchedule]

Scheduled(a) == schedule[a] # NoSchedule
Approved(a) == Scheduled(a) /\ schedule[a].status = "APPROVED"

(* upsertDraft's checks: the contract version is the configured one and the  *)
(* schedule is not approved.                                                 *)
BeginUpsert(k, a, days) ==
  /\ adminCall[k] = Idle
  /\ ~Approved(a)
  /\ adminCall' = [adminCall EXCEPT ![k] =
       [op |-> "upsert", affiliation |-> a,
        config |-> [cutoffDays |-> days, contract |-> contract], exists |-> Scheduled(a)]]
  /\ UNCHANGED << schedule, contract, reviewed >>

(* The approvals in progress that have read the row before.                  *)
Overtake(k) ==
  [ c \in AdminCalls |->
      IF c = k THEN Idle
      ELSE IF /\ adminCall[c] # Idle /\ adminCall[c].op = "approve"
              /\ adminCall[c].affiliation = adminCall[k].affiliation
           THEN [ adminCall[c] EXCEPT !.review.overtaken = TRUE ]
           ELSE adminCall[c] ]

(* Mutant: a row that exists keeps its status and its approval.              *)
CommitUpsertKeepingApproval(k) ==
  LET r == adminCall[k]
  IN  /\ r # Idle /\ r.op = "upsert"
      /\ r.exists = Scheduled(r.affiliation)
      /\ schedule' = IF r.exists THEN [schedule EXCEPT ![r.affiliation].config = r.config]
           ELSE [schedule EXCEPT ![r.affiliation] =
             [config |-> r.config, status |-> "DRAFT", signed |-> FALSE]]
      /\ adminCall' = Overtake(k)
      /\ UNCHANGED << contract, reviewed >>

(* The update by id, or the insert, which the unique key refuses when        *)
(* another request has inserted the row.                                     *)
CommitUpsert(k) ==
  LET r == adminCall[k]
  IN  /\ r # Idle /\ r.op = "upsert"
      /\ r.exists = Scheduled(r.affiliation)
      /\ schedule' = [schedule EXCEPT ![r.affiliation] =
           [config |-> r.config, status |-> "DRAFT", signed |-> FALSE]]
      /\ adminCall' = Overtake(k)
      /\ UNCHANGED << contract, reviewed >>

BeginApprove(k, a) ==
  /\ adminCall[k] = Idle
  /\ Scheduled(a)
  /\ schedule[a].status \in {"DRAFT", "PAUSED"}
  /\ schedule[a].config.contract = contract
  /\ adminCall' = [adminCall EXCEPT ![k] =
       [op |-> "approve", affiliation |-> a,
        review |-> [config |-> schedule[a].config, overtaken |-> FALSE]]]
  /\ UNCHANGED << schedule, contract, reviewed >>

CommitApprove(k) ==
  LET r == adminCall[k]
  IN  /\ r # Idle /\ r.op = "approve"
      /\ schedule' = [schedule EXCEPT ![r.affiliation].status = "APPROVED",
                                      ![r.affiliation].signed = TRUE]
      /\ reviewed' = [reviewed EXCEPT ![r.affiliation] = r.review]
      /\ adminCall' = [adminCall EXCEPT ![k] = Idle]
      /\ UNCHANGED contract

BeginPause(k, a) ==
  /\ adminCall[k] = Idle
  /\ Approved(a)
  /\ adminCall' = [adminCall EXCEPT ![k] = [op |-> "pause", affiliation |-> a]]
  /\ UNCHANGED << schedule, contract, reviewed >>

CommitPause(k) ==
  LET r == adminCall[k]
  IN  /\ r # Idle /\ r.op = "pause"
      /\ schedule' = [schedule EXCEPT ![r.affiliation].status = "PAUSED"]
      /\ adminCall' = [adminCall EXCEPT ![k] = Idle]
      /\ UNCHANGED << contract, reviewed >>

(* A refused insert, a database failure, or the death of the process.        *)
AbandonAdminCall(k) ==
  /\ adminCall[k] # Idle
  /\ adminCall' = [adminCall EXCEPT ![k] = Idle]
  /\ UNCHANGED << schedule, contract, reviewed >>

(* A release with a later contract version.  What a request has read stays   *)
(* with it: it ends with its process (AbandonAdminCall), or goes on.         *)
DeployContract(v) ==
  /\ v \in Contracts
  /\ v > contract
  /\ contract' = v
  /\ UNCHANGED << schedule, adminCall, reviewed >>

ScheduleNext == \E k \in AdminCalls :
  \/ \E a \in Affiliations, days \in CutoffDays : BeginUpsert(k, a, days)
  \/ CommitUpsert(k)
  \/ \E a \in Affiliations : BeginApprove(k, a) \/ BeginPause(k, a)
  \/ CommitApprove(k)
  \/ CommitPause(k)
  \/ AbandonAdminCall(k)

(* The approval gate (INTEGRATION_CONTRACT.md:26): an approved schedule is    *)
(* signed and does what its approval checked, unless an upsertDraft that was *)
(* under way at the same time wrote between approve's read and its update.   *)
ApprovalGapOnlyByRace ==
  \A a \in Affiliations : Approved(a) =>
    /\ schedule[a].signed
    /\ reviewed[a].config = schedule[a].config \/ reviewed[a].overtaken
=============================================================================
