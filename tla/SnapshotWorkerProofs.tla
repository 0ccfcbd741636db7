-------------------------- MODULE SnapshotWorkerProofs --------------------------
(***************************************************************************)
(* Theorems about SnapshotWorker, and SnapshotSchedules within it, for any *)
(* affiliations, workers, operators, requests, attempts and contracts.     *)
(*                                                                         *)
(* A request for an approval carries what it checked, or the mark that the *)
(* row has been configured since (RequestsHold).  A worker whose           *)
(* transaction is open has the lock, and a worker delivers only within a   *)
(* run (LockHeld); what a deliver call names stays prepared                *)
(* (DeliveriesHold).                                                       *)
(***************************************************************************)
EXTENDS SnapshotWorker, FiniteSetTheorems, TLAPS

(* A row that a request has read is there; an approval in progress knows the *)
(* row's configuration, unless the row has overtaken it.                     *)
RequestsHold ==
  \A k \in AdminCalls :
    LET r == adminCall[k]
    IN  /\ r # Idle /\ r.op \in {"approve", "pause"} => Scheduled(r.affiliation)
        /\ r # Idle /\ r.op = "approve" =>
             r.review.config = schedule[r.affiliation].config \/ r.review.overtaken

ScheduleInv == ScheduleTypeOK /\ RequestsHold /\ ApprovalGapOnlyByRace

BatchesHold ==
  batch \in [Batches -> Batch \cup {NoBatch}] /\ older \subseteq Batches \X Batches

DeliveriesHold ==
  /\ delivering \in [Senders -> Delivery \cup {Nobody}]
  /\ \A s \in Senders : Busy(s) => Prepared(delivering[s].batch)

RunsHold ==
  /\ run \in [Workers -> Run]
  /\ \A w \in Workers :
       /\ run[w].step = "prepare" => run[w].month \in Affiliations
       /\ run[w].step = "send" => run[w].month \in Batches

LockHeld ==
  /\ lock \in Workers \cup {Nobody} /\ leaked \in BOOLEAN /\ holding \subseteq Workers
  /\ leaked => lock # Nobody
  /\ \A w \in holding : lock = w
  /\ \A w \in Workers :
       /\ run[w].step = "off" => run[w] = Off
       /\ Busy(w) => run[w] # Off

CountersHold ==
  day \in 0 .. LastDay /\ complete \subseteq Affiliations /\ failures \in 0 .. MaxFailures

WorkerInv ==
  ScheduleInv /\ BatchesHold /\ DeliveriesHold /\ RunsHold /\ LockHeld /\ CountersHold

(***************************************************************************)
(* The schedules.                                                          *)
(***************************************************************************)
LEMMA ScheduleInitInv == ScheduleInit => ScheduleInv
<1> SUFFICES ASSUME ScheduleInit PROVE ScheduleInv
  OBVIOUS
<1>1. /\ \A k \in AdminCalls : adminCall[k] = Idle
      /\ \A a \in Affiliations : schedule[a] = NoSchedule
  BY DEF ScheduleInit
<1>2. ScheduleTypeOK
  BY DEF ScheduleInit, ScheduleTypeOK
<1>3. RequestsHold
  BY <1>1 DEF RequestsHold
<1>4. ApprovalGapOnlyByRace
  BY <1>1 DEF ApprovalGapOnlyByRace, Approved, Scheduled
<1> QED BY <1>2, <1>3, <1>4 DEF ScheduleInv

(* A request begins or ends without touching a row.                          *)
LEMMA RequestInv ==
  ASSUME ScheduleInv, NEW k \in AdminCalls, NEW r \in ScheduleCall \cup {Idle},
         r # Idle /\ r.op \in {"approve", "pause"} => Scheduled(r.affiliation),
         r # Idle /\ r.op = "approve" =>
           r.review.config = schedule[r.affiliation].config \/ r.review.overtaken,
         adminCall' = [adminCall EXCEPT ![k] = r],
         UNCHANGED << schedule, contract, reviewed >>
  PROVE  ScheduleInv'
<1>1. ScheduleTypeOK'
  BY DEF ScheduleInv, ScheduleTypeOK
<1>2. RequestsHold'
  BY DEF ScheduleInv, ScheduleTypeOK, RequestsHold, Scheduled
<1>3. ApprovalGapOnlyByRace'
  BY DEF ScheduleInv, ApprovalGapOnlyByRace, Approved, Scheduled
<1> QED BY <1>1, <1>2, <1>3 DEF ScheduleInv

LEMMA CommitUpsertInv ==
  ASSUME ScheduleInv, NEW k \in AdminCalls, CommitUpsert(k)
  PROVE  ScheduleInv'
<1> USE DEF ScheduleInv
<1>1. adminCall[k] \in UpsertCall
  BY DEF ScheduleTypeOK, CommitUpsert, ScheduleCall, ApproveCall, PauseCall
<1>2. PICK a \in Affiliations, row \in Schedule :
        /\ a = adminCall[k].affiliation /\ row.status = "DRAFT"
        /\ schedule' = [schedule EXCEPT ![a] = row]
  BY <1>1 DEF CommitUpsert, UpsertCall, Schedule, ScheduleStatuses
<1>3. row # NoSchedule
  BY ScheduleAssumption
<1>4. /\ schedule' \in [Affiliations -> Schedule \cup {NoSchedule}]
      /\ \A b \in Affiliations : b # a => schedule'[b] = schedule[b]
      /\ schedule'[a] = row
      /\ \A b \in Affiliations : Scheduled(b) => Scheduled(b)'
  BY <1>2, <1>3 DEF ScheduleTypeOK, Scheduled
<1>5. ASSUME NEW c \in AdminCalls
      PROVE  \/ adminCall'[c] = Idle
             \/ /\ adminCall'[c] = adminCall[c]
                /\ ~(adminCall[c].op = "approve" /\ adminCall[c].affiliation = a)
             \/ /\ adminCall[c] \in ApproveCall /\ adminCall'[c] \in ApproveCall
                /\ adminCall[c] # Idle
                /\ adminCall'[c].affiliation = a /\ adminCall[c].affiliation = a
                /\ adminCall'[c].review.overtaken
  <2>1. adminCall' = Overtake(k)
    BY DEF CommitUpsert
  <2>2. CASE c = k \/ adminCall[c] = Idle
    BY <2>1, <2>2 DEF Overtake
  <2>3. CASE /\ c # k /\ adminCall[c] # Idle
             /\ ~(adminCall[c].op = "approve" /\ adminCall[c].affiliation = a)
    BY <1>2, <2>1, <2>3 DEF Overtake
  <2>4. CASE /\ c # k /\ adminCall[c] # Idle
             /\ adminCall[c].op = "approve" /\ adminCall[c].affiliation = a
    <3>1. adminCall[c] \in ApproveCall
      BY <2>4 DEF ScheduleTypeOK, ScheduleCall, UpsertCall, PauseCall
    <3>2. adminCall'[c] = [adminCall[c] EXCEPT !.review.overtaken = TRUE]
      BY <1>2, <2>1, <2>4 DEF Overtake
    <3>3. /\ [adminCall[c].review EXCEPT !.overtaken = TRUE] \in Review
          /\ [adminCall[c].review EXCEPT !.overtaken = TRUE].overtaken
      BY <3>1 DEF ApproveCall, Review
    <3>4. adminCall'[c] = [adminCall[c] EXCEPT !.review =
                             [adminCall[c].review EXCEPT !.overtaken = TRUE]]
      BY <3>1, <3>2 DEF ApproveCall
    <3> QED BY <2>4, <3>1, <3>3, <3>4 DEF ApproveCall
  <2> QED BY <2>2, <2>3, <2>4
<1>6. ScheduleTypeOK'
  <2>1. adminCall' = [c \in AdminCalls |-> adminCall'[c]]
    BY DEF CommitUpsert, Overtake
  <2>2. \A c \in AdminCalls : adminCall'[c] \in ScheduleCall \cup {Idle}
    BY <1>5 DEF ScheduleTypeOK, ScheduleCall
  <2>3. adminCall' \in [AdminCalls -> ScheduleCall \cup {Idle}]
    BY <2>1, <2>2
  <2>4. UNCHANGED << contract, reviewed >>
    BY DEF CommitUpsert
  <2> QED BY <1>4, <2>3, <2>4 DEF ScheduleTypeOK
<1>7. RequestsHold'
  <2> SUFFICES ASSUME NEW c \in AdminCalls, adminCall'[c] # Idle,
                      adminCall'[c].op \in {"approve", "pause"}
               PROVE  /\ Scheduled(adminCall[c].affiliation)'
                      /\ adminCall'[c].op = "approve" =>
                           \/ adminCall'[c].review.config = schedule'[adminCall'[c].affiliation].config
                           \/ adminCall'[c].review.overtaken
    BY DEF RequestsHold
  <2>1. CASE /\ adminCall'[c] = adminCall[c]
             /\ ~(adminCall[c].op = "approve" /\ adminCall[c].affiliation = a)
    <3>1. adminCall[c].affiliation \in Affiliations /\ Scheduled(adminCall[c].affiliation)
      BY <2>1 DEF ScheduleTypeOK, ScheduleCall, UpsertCall, ApproveCall, PauseCall, RequestsHold
    <3> QED BY <1>4, <2>1, <3>1 DEF RequestsHold
  <2>2. CASE adminCall'[c].affiliation = a /\ adminCall'[c].review.overtaken
    BY <1>3, <1>4, <2>2 DEF Scheduled
  <2> QED BY <1>5, <2>1, <2>2
<1>8. ApprovalGapOnlyByRace'
  <2>1. ~Approved(a)'
    BY <1>2, <1>4 DEF Approved
  <2>2. reviewed' = reviewed
    BY DEF CommitUpsert
  <2> QED BY <1>4, <2>1, <2>2 DEF ApprovalGapOnlyByRace, Approved, Scheduled
<1> QED BY <1>6, <1>7, <1>8

LEMMA CommitApproveInv ==
  ASSUME ScheduleInv, NEW k \in AdminCalls, CommitApprove(k)
  PROVE  ScheduleInv'
<1> USE DEF ScheduleInv
<1>1. adminCall[k] \in ApproveCall /\ adminCall[k] # Idle /\ adminCall[k].op = "approve"
  BY DEF ScheduleTypeOK, CommitApprove, ScheduleCall, UpsertCall, PauseCall
<1>2. PICK a \in Affiliations, v \in Review :
        /\ a = adminCall[k].affiliation /\ v = adminCall[k].review
        /\ v.config = schedule[a].config \/ v.overtaken
        /\ Scheduled(a)
  BY <1>1 DEF ApproveCall, RequestsHold
<1>3. schedule[a] \in Schedule
  BY <1>2 DEF ScheduleTypeOK, Scheduled
<1>4. PICK row \in Schedule :
        /\ row.config = schedule[a].config /\ row.signed
        /\ schedule' = [schedule EXCEPT ![a] = row]
  <2>1. [schedule[a] EXCEPT !.status = "APPROVED", !.signed = TRUE] \in Schedule
    BY <1>3 DEF Schedule, ScheduleStatuses
  <2>2. schedule' = [schedule EXCEPT ![a] = [schedule[a] EXCEPT !.status = "APPROVED", !.signed = TRUE]]
    BY <1>2, <1>3 DEF CommitApprove, ScheduleTypeOK
  <2>3. /\ [schedule[a] EXCEPT !.status = "APPROVED", !.signed = TRUE].config = schedule[a].config
        /\ [schedule[a] EXCEPT !.status = "APPROVED", !.signed = TRUE].signed
    BY <1>3 DEF Schedule
  <2> QED BY <2>1, <2>2, <2>3
<1>5. row # NoSchedule
  BY ScheduleAssumption
<1>6. /\ schedule' \in [Affiliations -> Schedule \cup {NoSchedule}]
      /\ \A b \in Affiliations : b # a => schedule'[b] = schedule[b]
      /\ schedule'[a] = row
      /\ \A b \in Affiliations : Scheduled(b)' <=> Scheduled(b)
      /\ \A b \in Affiliations : schedule'[b].config = schedule[b].config
  BY <1>2, <1>4, <1>5 DEF ScheduleTypeOK, Scheduled
<1>7. /\ reviewed' = [reviewed EXCEPT ![a] = v] /\ contract' = contract
      /\ adminCall' = [adminCall EXCEPT ![k] = Idle]
  BY <1>2 DEF CommitApprove
<1>8. ScheduleTypeOK'
  BY <1>6, <1>7 DEF ScheduleTypeOK
<1>9. RequestsHold'
  <2> SUFFICES ASSUME NEW c \in AdminCalls, adminCall'[c] # Idle,
                      adminCall'[c].op \in {"approve", "pause"}
               PROVE  /\ Scheduled(adminCall[c].affiliation)'
                      /\ adminCall'[c].op = "approve" =>
                           \/ adminCall'[c].review.config = schedule'[adminCall'[c].affiliation].config
                           \/ adminCall'[c].review.overtaken
    BY DEF RequestsHold
  <2>1. adminCall'[c] = adminCall[c]
    BY <1>7 DEF ScheduleTypeOK
  <2>2. adminCall[c].affiliation \in Affiliations
    BY <2>1 DEF ScheduleTypeOK, ScheduleCall, UpsertCall, ApproveCall, PauseCall
  <2> QED BY <1>6, <2>1, <2>2 DEF RequestsHold
<1>10. ApprovalGapOnlyByRace'
  BY <1>2, <1>4, <1>6, <1>7 DEF ScheduleTypeOK, ApprovalGapOnlyByRace, Approved
<1> QED BY <1>8, <1>9, <1>10

LEMMA CommitPauseInv ==
  ASSUME ScheduleInv, NEW k \in AdminCalls, CommitPause(k)
  PROVE  ScheduleInv'
<1> USE DEF ScheduleInv
<1>1. adminCall[k] \in PauseCall /\ adminCall[k] # Idle /\ adminCall[k].op = "pause"
  BY DEF ScheduleTypeOK, CommitPause, ScheduleCall, UpsertCall, ApproveCall
<1>2. PICK a \in Affiliations : a = adminCall[k].affiliation /\ Scheduled(a)
  BY <1>1 DEF PauseCall, RequestsHold
<1>3. schedule[a] \in Schedule
  BY <1>2 DEF ScheduleTypeOK, Scheduled
<1>4. PICK row \in Schedule :
        /\ row.config = schedule[a].config /\ row.status = "PAUSED"
        /\ schedule' = [schedule EXCEPT ![a] = row]
  <2>1. /\ [schedule[a] EXCEPT !.status = "PAUSED"] \in Schedule
        /\ [schedule[a] EXCEPT !.status = "PAUSED"].config = schedule[a].config
        /\ [schedule[a] EXCEPT !.status = "PAUSED"].status = "PAUSED"
    BY <1>3 DEF Schedule, ScheduleStatuses
  <2>2. schedule' = [schedule EXCEPT ![a] = [schedule[a] EXCEPT !.status = "PAUSED"]]
    BY <1>2, <1>3 DEF CommitPause, ScheduleTypeOK
  <2> QED BY <2>1, <2>2
<1>5. row # NoSchedule
  BY ScheduleAssumption
<1>6. /\ schedule' \in [Affiliations -> Schedule \cup {NoSchedule}]
      /\ \A b \in Affiliations : b # a => schedule'[b] = schedule[b]
      /\ schedule'[a] = row
      /\ \A b \in Affiliations : Scheduled(b)' <=> Scheduled(b)
      /\ \A b \in Affiliations : schedule'[b].config = schedule[b].config
  BY <1>2, <1>4, <1>5 DEF ScheduleTypeOK, Scheduled
<1>7. UNCHANGED << contract, reviewed >> /\ adminCall' = [adminCall EXCEPT ![k] = Idle]
  BY DEF CommitPause
<1>8. ScheduleTypeOK'
  BY <1>6, <1>7 DEF ScheduleTypeOK
<1>9. RequestsHold'
  <2> SUFFICES ASSUME NEW c \in AdminCalls, adminCall'[c] # Idle,
                      adminCall'[c].op \in {"approve", "pause"}
               PROVE  /\ Scheduled(adminCall[c].affiliation)'
                      /\ adminCall'[c].op = "approve" =>
                           \/ adminCall'[c].review.config = schedule'[adminCall'[c].affiliation].config
                           \/ adminCall'[c].review.overtaken
    BY DEF RequestsHold
  <2>1. adminCall'[c] = adminCall[c]
    BY <1>7 DEF ScheduleTypeOK
  <2>2. adminCall[c].affiliation \in Affiliations
    BY <2>1 DEF ScheduleTypeOK, ScheduleCall, UpsertCall, ApproveCall, PauseCall
  <2> QED BY <1>6, <2>1, <2>2 DEF RequestsHold
<1>10. ApprovalGapOnlyByRace'
  BY <1>4, <1>6, <1>7 DEF ApprovalGapOnlyByRace, Approved
<1> QED BY <1>8, <1>9, <1>10

LEMMA ScheduleStepInv ==
  ASSUME ScheduleInv, ScheduleNext
  PROVE  ScheduleInv'
<1>1. ASSUME NEW k \in AdminCalls, NEW a \in Affiliations, NEW days \in CutoffDays,
             BeginUpsert(k, a, days)
      PROVE  ScheduleInv'
  <2>1. PICK r \in UpsertCall : adminCall' = [adminCall EXCEPT ![k] = r]
    <3>1. PICK exists \in BOOLEAN : exists = Scheduled(a)
      BY DEF Scheduled
    <3>2. [cutoffDays |-> days, contract |-> contract] \in Configuration
      BY DEF Configuration, ScheduleInv, ScheduleTypeOK
    <3> QED BY <1>1, <3>1, <3>2 DEF BeginUpsert, UpsertCall
  <2>2. r \in ScheduleCall \cup {Idle} /\ r.op = "upsert"
    BY DEF ScheduleCall, UpsertCall
  <2> QED BY <1>1, <2>1, <2>2, RequestInv DEF BeginUpsert
<1>2. ASSUME NEW k \in AdminCalls, NEW a \in Affiliations, BeginApprove(k, a)
      PROVE  ScheduleInv'
  <2>1. schedule[a] \in Schedule /\ Scheduled(a)
    BY <1>2 DEF BeginApprove, ScheduleInv, ScheduleTypeOK, Scheduled
  <2>2. PICK r \in ApproveCall :
          /\ r.op = "approve" /\ r.affiliation = a /\ r.review.config = schedule[a].config
          /\ adminCall' = [adminCall EXCEPT ![k] = r]
    BY <1>2, <2>1 DEF BeginApprove, ApproveCall, Review, Schedule
  <2>3. r \in ScheduleCall \cup {Idle}
    BY DEF ScheduleCall
  <2> QED BY <1>2, <2>1, <2>2, <2>3, RequestInv DEF BeginApprove
<1>3. ASSUME NEW k \in AdminCalls, NEW a \in Affiliations, BeginPause(k, a)
      PROVE  ScheduleInv'
  <2>1. PICK r \in PauseCall :
          r.op = "pause" /\ r.affiliation = a /\ adminCall' = [adminCall EXCEPT ![k] = r]
    BY <1>3 DEF BeginPause, PauseCall
  <2>2. r \in ScheduleCall \cup {Idle} /\ Scheduled(a)
    BY <1>3 DEF ScheduleCall, BeginPause, Approved
  <2> QED BY <1>3, <2>1, <2>2, RequestInv DEF BeginPause
<1>4. ASSUME NEW k \in AdminCalls, AbandonAdminCall(k)
      PROVE  ScheduleInv'
  BY <1>4, RequestInv DEF AbandonAdminCall
<1> QED BY <1>1, <1>2, <1>3, <1>4, CommitUpsertInv, CommitApproveInv, CommitPauseInv
     DEF ScheduleNext

LEMMA DeployContractInv ==
  ASSUME ScheduleInv, NEW v \in Contracts, DeployContract(v)
  PROVE  ScheduleInv'
<1>1. ScheduleTypeOK'
  BY DEF DeployContract, ScheduleInv, ScheduleTypeOK
<1>2. RequestsHold'
  BY DEF DeployContract, ScheduleInv, RequestsHold, Scheduled
<1>3. ApprovalGapOnlyByRace'
  BY DEF DeployContract, ScheduleInv, ApprovalGapOnlyByRace, Approved, Scheduled
<1> QED BY <1>1, <1>2, <1>3 DEF ScheduleInv

LEMMA ScheduleStays ==
  ASSUME ScheduleInv, UNCHANGED scheduleVars
  PROVE  ScheduleInv'
BY DEF scheduleVars, ScheduleInv, ScheduleTypeOK, RequestsHold, ApprovalGapOnlyByRace, Approved,
       Scheduled

(***************************************************************************)
(* What the steps of deliver and prepare write.                            *)
(***************************************************************************)
LEMMA InitInv == Init => WorkerInv
<1> SUFFICES ASSUME Init PROVE WorkerInv
  OBVIOUS
<1>1. ScheduleInv
  BY ScheduleInitInv DEF Init
<1>2. /\ \A s \in Senders : ~Busy(s)
      /\ \A w \in Workers : run[w] = Off /\ w \in Senders
  BY DEF Init, Busy, Senders
<1>3. BatchesHold /\ DeliveriesHold /\ CountersHold
  BY <1>2, WorkerAssumption DEF Init, BatchesHold, DeliveriesHold, CountersHold
<1>4. Off \in Run /\ Off.step = "off"
  BY DEF Off, Run, Steps
<1>5. RunsHold
  BY <1>2, <1>4 DEF Init, RunsHold
<1>6. LockHeld
  BY <1>2 DEF Init, LockHeld
<1> QED BY <1>1, <1>3, <1>5, <1>6 DEF WorkerInv

(* A batch that is stored is there, and no other disappears.                 *)
LEMMA StoreIs ==
  ASSUME BatchesHold, NEW b \in Batches, NEW row \in Batch, Store(b, row)
  PROVE  /\ BatchesHold'
         /\ Prepared(b)' /\ batch'[b] = row
         /\ \A c \in Batches : Prepared(c) => Prepared(c)'
<1>1. row # NoBatch
  BY WorkerAssumption
<1>2. older' \subseteq Batches \X Batches
  BY DEF Store, MoveToEnd, BatchesHold
<1> QED BY <1>1, <1>2 DEF Store, BatchesHold, Prepared

(* A sender takes up a deliver call, goes on with it, or ends it.            *)
LEMMA DeliverIs ==
  ASSUME DeliveriesHold, NEW s \in Senders, NEW d \in Delivery \cup {Nobody},
         d # Nobody => Prepared(d.batch)',
         \A b \in Batches : Prepared(b) => Prepared(b)',
         delivering' = [delivering EXCEPT ![s] = d]
  PROVE  /\ DeliveriesHold'
         /\ \A t \in Senders \ {s} : Busy(t)' <=> Busy(t)
         /\ Busy(s)' <=> d # Nobody
<1>1. \A t \in Senders : Busy(t) => delivering[t].batch \in Batches
  BY DEF DeliveriesHold, Busy, Delivery
<1> QED BY <1>1 DEF DeliveriesHold, Busy

LEMMA BatchesStay ==
  ASSUME UNCHANGED batchVars
  PROVE  /\ BatchesHold => BatchesHold'
         /\ \A b \in Batches : Prepared(b)' <=> Prepared(b)
BY DEF batchVars, BatchesHold, Prepared

LEMMA DeliveriesStay ==
  ASSUME DeliveriesHold, UNCHANGED delivering, \A b \in Batches : Prepared(b) => Prepared(b)'
  PROVE  DeliveriesHold' /\ \A s \in Senders : Busy(s)' <=> Busy(s)
<1>1. \A t \in Senders : Busy(t) => delivering[t].batch \in Batches
  BY DEF DeliveriesHold, Busy, Delivery
<1> QED BY <1>1 DEF DeliveriesHold, Busy

LEMMA LockStays ==
  ASSUME RunsHold, LockHeld, UNCHANGED workerVars, \A w \in Workers : Busy(w)' => Busy(w)
  PROVE  RunsHold' /\ LockHeld'
BY DEF workerVars, lockVars, RunsHold, LockHeld

(* A run that holds the lock makes a step.                                   *)
LEMMA RunIs ==
  ASSUME RunsHold, LockHeld, NEW w \in Workers, run[w] # Off, NEW j \in Run,
         j.step # "off",
         j.step = "prepare" => j.month \in Affiliations,
         j.step = "send" => j.month \in Batches,
         run' = [run EXCEPT ![w] = j], UNCHANGED lockVars,
         \A v \in Workers \ {w} : Busy(v)' => Busy(v)
  PROVE  RunsHold' /\ LockHeld'
<1>1. j # Off
  BY DEF Off
<1> QED BY <1>1 DEF RunsHold, LockHeld, lockVars

LEMMA WorkersSend == Workers \subseteq Senders /\ Operators \subseteq Senders
  BY DEF Senders

LEMMA MayDeliverIs ==
  ASSUME BatchesHold, NEW b \in Batches, MayDeliver(b)
  PROVE  [batch |-> b, attempt |-> batch[b].attempt + 1, sent |-> FALSE] \in Delivery
<1>1. batch[b] \in Batch
  BY DEF BatchesHold, MayDeliver, Prepared
<1>2. batch[b].attempt + 1 \in 1 .. MaxAttempts
  BY <1>1, WorkerAssumption DEF Batch, MayDeliver
<1> QED BY <1>2 DEF Delivery

(* The deliver call's first steps are the same for workers and operators.    *)
LEMMA BeginDeliverIs ==
  ASSUME BatchesHold, DeliveriesHold, NEW s \in Senders, NEW b \in Batches, MayDeliver(b),
         BeginDeliver(s, b), UNCHANGED batchVars
  PROVE  DeliveriesHold' /\ \A t \in Senders \ {s} : Busy(t)' <=> Busy(t)
<1>1. PICK d \in Delivery : d.batch = b /\ delivering' = [delivering EXCEPT ![s] = d]
  <2>1. [batch |-> b, attempt |-> batch[b].attempt + 1, sent |-> FALSE] \in Delivery
    BY MayDeliverIs
  <2> QED BY <2>1 DEF BeginDeliver
<1>2. Prepared(d.batch)' /\ d \in Delivery \cup {Nobody}
  BY <1>1, BatchesStay DEF MayDeliver
<1> QED BY <1>1, <1>2, BatchesStay, DeliverIs

LEMMA DeliverStepInv ==
  ASSUME WorkerInv, NEW s \in Senders, DeliverStep(s)
  PROVE  WorkerInv'
<1> USE DEF WorkerInv
<1> DEFINE d == delivering[s]
<1>1. /\ d \in Delivery /\ d # Nobody /\ Busy(s) /\ d.batch \in Batches /\ Prepared(d.batch)
      /\ batch[d.batch] \in Batch
  <2>1. Busy(s)
    BY DEF DeliverStep, StartSending, FailToStart, Settle
  <2>2. d \in Delivery /\ d # Nobody
    BY <2>1 DEF DeliveriesHold, Busy
  <2> QED BY <2>1, <2>2 DEF DeliveriesHold, Delivery, BatchesHold, Prepared
<1>2. ScheduleInv' /\ CountersHold' /\ UNCHANGED workerVars
  <2>1. UNCHANGED << periodVars, workerVars, failures >>
    BY DEF DeliverStep, StartSending, FailToStart, Settle
  <2> QED BY <2>1, ScheduleStays DEF CountersHold, periodVars
<1>3. /\ BatchesHold' /\ DeliveriesHold'
      /\ \A t \in Senders : Busy(t)' => Busy(t)
  <2>1. CASE StartSending(s)
    <3>1. PICK row \in Batch : Store(d.batch, row)
      <4>1. [status |-> "DELIVERING", attempt |-> d.attempt, next |-> "none"] \in Batch
        BY <1>1, WorkerAssumption DEF Batch, BatchStatuses, Delivery
      <4> QED BY <2>1, <4>1 DEF StartSending
    <3>2. PICK e \in Delivery : e.batch = d.batch /\ delivering' = [delivering EXCEPT ![s] = e]
      <4>1. /\ [d EXCEPT !.sent = TRUE] \in Delivery
            /\ [d EXCEPT !.sent = TRUE].batch = d.batch
        BY <1>1 DEF Delivery
      <4>2. delivering' = [delivering EXCEPT ![s] = [d EXCEPT !.sent = TRUE]]
        BY <2>1 DEF StartSending, DeliveriesHold
      <4> QED BY <4>1, <4>2
    <3>3. /\ BatchesHold' /\ Prepared(e.batch)'
          /\ \A c \in Batches : Prepared(c) => Prepared(c)'
      BY <1>1, <3>1, <3>2, StoreIs
    <3>4. e \in Delivery \cup {Nobody}
      OBVIOUS
    <3> QED BY <1>1, <3>2, <3>3, <3>4, DeliverIs
  <2>2. CASE FailToStart(s)
    <3>1. delivering' = [delivering EXCEPT ![s] = Nobody] /\ UNCHANGED batchVars
      BY <2>2 DEF FailToStart
    <3>2. BatchesHold' /\ \A c \in Batches : Prepared(c) => Prepared(c)'
      BY <3>1, BatchesStay
    <3> QED BY <1>1, <3>1, <3>2, DeliverIs
  <2>3. ASSUME NEW outcome \in {"acknowledged", "retryable", "final"}, Settle(s, outcome)
        PROVE  BatchesHold' /\ DeliveriesHold' /\ \A t \in Senders : Busy(t)' => Busy(t)
    <3>1. PICK row \in Batch : Store(d.batch, row)
      <4> DEFINE old == batch[d.batch]
                 retryable == outcome = "retryable" /\ d.attempt < MaxAttempts
                 status == IF outcome = "acknowledged" THEN "APPLIED"
                           ELSE IF retryable THEN "RETRYABLE_FAILURE" ELSE "FAILED"
                 next == IF d.attempt = old.attempt /\ retryable THEN "ahead" ELSE old.next
      <4>1. status \in BatchStatuses
        BY DEF BatchStatuses
      <4>2. next \in {"none", "ahead", "due"}
        BY <1>1 DEF Batch
      <4>3. Store(d.batch, [old EXCEPT !.status = status, !.next = next])
        BY <2>3, <1>1 DEF Settle, Batch
      <4> HIDE DEF status, next
      <4>4. [old EXCEPT !.status = status, !.next = next] \in Batch
        BY <1>1, <4>1, <4>2 DEF Batch
      <4> QED BY <4>3, <4>4
    <3>2. delivering' = [delivering EXCEPT ![s] = Nobody]
      BY <2>3 DEF Settle
    <3>3. BatchesHold' /\ \A c \in Batches : Prepared(c) => Prepared(c)'
      BY <1>1, <3>1, StoreIs
    <3> QED BY <1>1, <3>2, <3>3, DeliverIs
  <2> QED BY <2>1, <2>2, <2>3 DEF DeliverStep
<1>4. RunsHold' /\ LockHeld'
  BY <1>2, <1>3, LockStays, WorkersSend
<1> QED BY <1>2, <1>3, <1>4

(***************************************************************************)
(* One run of the worker.                                                  *)
(***************************************************************************)
LEMMA Idles ==
  ASSUME WorkerInv, UNCHANGED << periodVars, failures >>
  PROVE  ScheduleInv' /\ CountersHold'
BY ScheduleStays DEF WorkerInv, CountersHold, periodVars

(* A step of the run that writes no table and delivers nothing.              *)
LEMMA QuietRunInv ==
  ASSUME WorkerInv, NEW w \in Workers, run[w] # Off, NEW j \in Run, j.step # "off",
         j.step = "prepare" => j.month \in Affiliations,
         j.step = "send" => j.month \in Batches,
         run' = [run EXCEPT ![w] = j],
         UNCHANGED << periodVars, batchVars, delivering, lockVars, failures >>
  PROVE  WorkerInv'
<1> USE DEF WorkerInv
<1>1. ScheduleInv' /\ CountersHold'
  BY Idles
<1>2. BatchesHold' /\ DeliveriesHold' /\ \A s \in Senders : Busy(s)' <=> Busy(s)
  BY BatchesStay, DeliveriesStay
<1>3. RunsHold' /\ LockHeld'
  BY <1>2, RunIs, WorkersSend
<1> QED BY <1>1, <1>2, <1>3

LEMMA StartRunInv ==
  ASSUME WorkerInv, NEW w \in Workers, StartRun(w)
  PROVE  WorkerInv'
<1> USE DEF WorkerInv
<1>1. PICK j \in Run : j.step = "retry" /\ run' = [run EXCEPT ![w] = j]
  <2>1. run[w] \in Run /\ contract \in Contracts
    BY DEF RunsHold, ScheduleInv, ScheduleTypeOK
  <2>2. /\ [run[w] EXCEPT !.step = "retry", !.version = contract] \in Run
        /\ [run[w] EXCEPT !.step = "retry", !.version = contract].step = "retry"
    BY <2>1 DEF Run, Steps
  <2>3. run' = [run EXCEPT ![w] = [run[w] EXCEPT !.step = "retry", !.version = contract]]
    BY DEF StartRun, Begin, RunsHold
  <2> QED BY <2>2, <2>3
<1>2. ScheduleInv' /\ CountersHold'
  BY Idles DEF StartRun, Begin
<1>3. BatchesHold' /\ DeliveriesHold' /\ \A s \in Senders : Busy(s)' <=> Busy(s)
  BY BatchesStay, DeliveriesStay DEF StartRun, Begin
<1>4. RunsHold'
  BY <1>1 DEF RunsHold
<1>5. LockHeld'
  <2>1. /\ lock' = w /\ leaked' = leaked /\ holding' = holding \cup {w}
        /\ (lock = Nobody \/ lock = w) /\ w # Nobody
    BY WorkerAssumption DEF StartRun, Begin
  <2>2. \A v \in holding' : v = w
    BY <2>1, WorkerAssumption DEF LockHeld
  <2>3. run'[w].step = "retry" /\ run'[w] # Off /\ \A v \in Workers \ {w} : run'[v] = run[v]
    BY <1>1 DEF RunsHold, Off
  <2> QED BY <1>3, <2>1, <2>2, <2>3, WorkersSend DEF LockHeld
<1> QED BY <1>2, <1>3, <1>4, <1>5

LEMMA ReadRetriesInv ==
  ASSUME WorkerInv, NEW w \in Workers, ReadRetries(w)
  PROVE  WorkerInv'
<1>1. run[w] \in Run /\ run[w].step = "retry" /\ run[w] # Off
  BY DEF WorkerInv, RunsHold, ReadRetries, Free, Off
<1> DEFINE due == {b \in RetryPage : batch[b].next = "due"}
<1>2. due \in SUBSET Batches
  BY DEF RetryPage
<1>3. run' = [run EXCEPT ![w] = [run[w] EXCEPT !.step = "resend", !.retries = due]]
  BY DEF ReadRetries, WorkerInv, RunsHold
<1> HIDE DEF due
<1>4. PICK j \in Run : j.step = "resend" /\ run' = [run EXCEPT ![w] = j]
  <2>1. /\ [run[w] EXCEPT !.step = "resend", !.retries = due] \in Run
        /\ [run[w] EXCEPT !.step = "resend", !.retries = due].step = "resend"
    BY <1>1, <1>2 DEF Run, Steps
  <2> QED BY <1>3, <2>1
<1> QED BY <1>1, <1>4, QuietRunInv DEF ReadRetries

LEMMA ReadSchedulesInv ==
  ASSUME WorkerInv, NEW w \in Workers, ReadSchedules(w)
  PROVE  WorkerInv'
<1>1. run[w] \in Run /\ run[w].step = "resend" /\ run[w] # Off
  BY DEF WorkerInv, RunsHold, ReadSchedules, Free, Off
<1> DEFINE months == {[affiliation |-> a, config |-> schedule[a].config] :
                        a \in {x \in Active : Approved(x)}}
<1>2. months \in SUBSET [ affiliation : Affiliations, config : Configuration ]
  <2>1. ASSUME NEW a \in Active, Approved(a)
        PROVE  a \in Affiliations /\ schedule[a].config \in Configuration
    BY <2>1, WorkerAssumption DEF WorkerInv, ScheduleInv, ScheduleTypeOK, Approved, Scheduled, Schedule
  <2> QED BY <2>1
<1>3. run' = [run EXCEPT ![w] = [run[w] EXCEPT !.step = "monthly", !.months = months]]
  BY DEF ReadSchedules, WorkerInv, RunsHold
<1> HIDE DEF months
<1>4. PICK j \in Run : j.step = "monthly" /\ run' = [run EXCEPT ![w] = j]
  <2>1. /\ [run[w] EXCEPT !.step = "monthly", !.months = months] \in Run
        /\ [run[w] EXCEPT !.step = "monthly", !.months = months].step = "monthly"
    BY <1>1, <1>2 DEF Run, Steps
  <2> QED BY <1>3, <2>1
<1> QED BY <1>1, <1>4, QuietRunInv DEF ReadSchedules

LEMMA ConsiderMonthInv ==
  ASSUME WorkerInv, NEW w \in Workers, NEW m \in run[w].months, ConsiderMonth(w, m)
  PROVE  WorkerInv'
<1>1. run[w] \in Run /\ run[w].step = "monthly" /\ run[w] # Off
  BY DEF WorkerInv, RunsHold, ConsiderMonth, Free, Off
<1>2. m.affiliation \in Affiliations
  BY <1>1 DEF Run
<1> DEFINE isDue == MonthIsDue(m, run[w].version)
           step == IF isDue THEN "prepare" ELSE "monthly"
           month == IF isDue THEN m.affiliation ELSE run[w].month
           j == [run[w] EXCEPT !.months = run[w].months \ {m}, !.step = step, !.month = month]
<1>3. /\ step \in {"prepare", "monthly"} /\ month \in Affiliations \cup Batches \cup {Nobody}
      /\ step = "prepare" => month \in Affiliations
  BY <1>1, <1>2 DEF Run
<1>4. run' = [run EXCEPT ![w] = j]
  BY <1>1 DEF ConsiderMonth, WorkerInv, RunsHold
<1> HIDE DEF step, month
<1>5. j \in Run /\ j.step = step /\ j.month = month
  BY <1>1, <1>3 DEF Run, Steps
<1> HIDE DEF j
<1>6. /\ j.step # "off" /\ j.step # "send"
      /\ j.step = "prepare" => j.month \in Affiliations
  BY <1>3, <1>5
<1> QED BY <1>1, <1>4, <1>5, <1>6, QuietRunInv DEF ConsiderMonth

(* Retry and SendMonth: the run goes on, and perhaps delivers a batch.       *)
LEMMA DeliveringRunInv ==
  ASSUME WorkerInv, NEW w \in Workers, run[w] # Off, NEW j \in Run, j.step \in {"resend", "monthly"},
         run' = [run EXCEPT ![w] = j],
         UNCHANGED << periodVars, batchVars, lockVars, failures >>,
         UNCHANGED delivering \/ \E b \in Batches : MayDeliver(b) /\ BeginDeliver(w, b)
  PROVE  WorkerInv'
<1> USE DEF WorkerInv
<1>1. ScheduleInv' /\ CountersHold'
  BY Idles
<1>2. BatchesHold' /\ \A b \in Batches : Prepared(b) => Prepared(b)'
  BY BatchesStay
<1>3. DeliveriesHold' /\ \A s \in Senders \ {w} : Busy(s)' <=> Busy(s)
  <2>1. CASE UNCHANGED delivering
    BY <1>2, <2>1, DeliveriesStay
  <2>2. ASSUME NEW b \in Batches, MayDeliver(b), BeginDeliver(w, b)
        PROVE  DeliveriesHold' /\ \A s \in Senders \ {w} : Busy(s)' <=> Busy(s)
    BY <2>2, BeginDeliverIs, WorkersSend
  <2> QED BY <2>1, <2>2
<1>4. RunsHold' /\ LockHeld'
  BY <1>3, RunIs, WorkersSend
<1> QED BY <1>1, <1>2, <1>3, <1>4

LEMMA RetryInv ==
  ASSUME WorkerInv, NEW w \in Workers, NEW b \in Batches, Retry(w, b)
  PROVE  WorkerInv'
<1>1. run[w] \in Run /\ run[w].step = "resend" /\ run[w] # Off
  BY DEF WorkerInv, RunsHold, Retry, Free, Off
<1>2. PICK j \in Run : j.step = "resend" /\ run' = [run EXCEPT ![w] = j]
  <2>1. /\ [run[w] EXCEPT !.retries = run[w].retries \ {b}] \in Run
        /\ [run[w] EXCEPT !.retries = run[w].retries \ {b}].step = "resend"
    BY <1>1 DEF Run
  <2>2. run' = [run EXCEPT ![w] = [run[w] EXCEPT !.retries = run[w].retries \ {b}]]
    BY <1>1 DEF Retry, WorkerInv, RunsHold
  <2> QED BY <2>1, <2>2
<1>3. UNCHANGED delivering \/ (MayDeliver(b) /\ BeginDeliver(w, b))
  BY DEF Retry
<1> QED BY <1>1, <1>2, <1>3, DeliveringRunInv DEF Retry

(* The run goes on with the months; perhaps it delivers what it prepared.    *)
LEMMA BackToMonths ==
  ASSUME WorkerInv, NEW w \in Workers, run[w] # Off,
         run' = [run EXCEPT ![w].step = "monthly", ![w].month = Nobody]
  PROVE  \E j \in Run : j.step = "monthly" /\ run' = [run EXCEPT ![w] = j]
<1>1. run[w] \in Run
  BY DEF WorkerInv, RunsHold
<1>2. /\ [run[w] EXCEPT !.step = "monthly", !.month = Nobody] \in Run
      /\ [run[w] EXCEPT !.step = "monthly", !.month = Nobody].step = "monthly"
  BY <1>1 DEF Run, Steps
<1>3. run' = [run EXCEPT ![w] = [run[w] EXCEPT !.step = "monthly", !.month = Nobody]]
  BY DEF WorkerInv, RunsHold
<1> QED BY <1>2, <1>3

LEMMA SendMonthInv ==
  ASSUME WorkerInv, NEW w \in Workers, SendMonth(w)
  PROVE  WorkerInv'
<1>1. run[w].step = "send" /\ run[w] # Off
  BY DEF SendMonth, Free, Off
<1>2. PICK j \in Run : j.step = "monthly" /\ run' = [run EXCEPT ![w] = j]
  BY <1>1, BackToMonths DEF SendMonth
<1>3. PICK b \in Batches : b = run[w].month
  BY <1>1 DEF WorkerInv, RunsHold
<1>4. UNCHANGED delivering \/ (MayDeliver(b) /\ BeginDeliver(w, b))
  BY <1>3 DEF SendMonth
<1> QED BY <1>1, <1>2, <1>4, DeliveringRunInv DEF SendMonth

LEMMA PrepareIs ==
  ASSUME BatchesHold, NEW b \in Batches, Prepare(b)
  PROVE  BatchesHold' /\ Prepared(b)' /\ \A c \in Batches : Prepared(c) => Prepared(c)'
<1>1. PICK row \in Batch : Store(b, row)
  <2>1. [status |-> "PREPARED", attempt |-> 0, next |-> "none"] \in Batch
    BY WorkerAssumption DEF Batch, BatchStatuses
  <2> QED BY <2>1 DEF Prepare
<1> QED BY <1>1, StoreIs

LEMMA PrepareMonthInv ==
  ASSUME WorkerInv, NEW w \in Workers, PrepareMonth(w)
  PROVE  WorkerInv'
<1> USE DEF WorkerInv
<1>1. run[w] \in Run /\ run[w].step = "prepare" /\ run[w] # Off
  BY DEF RunsHold, PrepareMonth, Free, Off
<1>2. PICK a \in Affiliations : a = run[w].month
  BY <1>1 DEF RunsHold
<1>3. PICK b \in Batches :
        /\ run' = [run EXCEPT ![w] = [run[w] EXCEPT !.step = "send", !.month = b]]
        /\ UNCHANGED batchVars \/ Prepare(b)
  <2>1. << a, "monthly" >> \in Batches /\ {a} \X {"monthly", "manual"} \subseteq Batches
    BY DEF Batches
  <2>2. CASE /\ Prepare(<< a, "monthly" >>)
             /\ run' = [run EXCEPT ![w].step = "send", ![w].month = << a, "monthly" >>]
    BY <2>1, <2>2 DEF RunsHold
  <2>3. CASE /\ \E b \in {a} \X {"monthly", "manual"} :
                   run' = [run EXCEPT ![w].step = "send", ![w].month = b]
             /\ UNCHANGED batchVars
    <3>1. PICK b \in Batches : run' = [run EXCEPT ![w].step = "send", ![w].month = b]
      BY <2>3, <2>1
    <3>2. run' = [run EXCEPT ![w] = [run[w] EXCEPT !.step = "send", !.month = b]]
      BY <3>1 DEF RunsHold
    <3> QED BY <2>3, <3>2
  <2> QED BY <1>2, <2>2, <2>3 DEF PrepareMonth
<1>4. PICK j \in Run : /\ j.step = "send" /\ j.month = b
                       /\ run' = [run EXCEPT ![w] = j]
  <2>1. /\ [run[w] EXCEPT !.step = "send", !.month = b] \in Run
        /\ [run[w] EXCEPT !.step = "send", !.month = b].step = "send"
        /\ [run[w] EXCEPT !.step = "send", !.month = b].month = b
    BY <1>1 DEF Run, Steps
  <2> QED BY <1>3, <2>1
<1>5. BatchesHold' /\ \A c \in Batches : Prepared(c) => Prepared(c)'
  BY <1>3, BatchesStay, PrepareIs
<1>6. ScheduleInv' /\ CountersHold'
  BY Idles DEF PrepareMonth
<1>7. DeliveriesHold' /\ \A s \in Senders : Busy(s)' <=> Busy(s)
  BY <1>5, DeliveriesStay DEF PrepareMonth
<1>8. RunsHold' /\ LockHeld'
  BY <1>1, <1>4, <1>7, RunIs, WorkersSend DEF PrepareMonth
<1> QED BY <1>5, <1>6, <1>7, <1>8

(* The run of a worker ends; whoever holds the lock after that has it.       *)
LEMMA RunEnds ==
  ASSUME RunsHold, LockHeld, NEW w \in Workers, run' = [run EXCEPT ![w] = Off],
         lock' \in Workers \cup {Nobody}, leaked' \in BOOLEAN, leaked' => lock' # Nobody,
         holding' \subseteq Workers, \A v \in holding' : lock' = v,
         ~Busy(w)', \A v \in Workers \ {w} : Busy(v)' => Busy(v)
  PROVE  RunsHold' /\ LockHeld'
<1>1. Off \in Run /\ Off.step = "off"
  BY DEF Off, Run, Steps
<1>2. RunsHold'
  BY <1>1 DEF RunsHold
<1>3. run'[w] = Off /\ \A v \in Workers \ {w} : run'[v] = run[v]
  BY DEF RunsHold
<1> QED BY <1>1, <1>2, <1>3 DEF LockHeld

(* RELEASE_LOCK, or its failure, at the end of a run.                        *)
LEMMA LeaveLockInv ==
  ASSUME WorkerInv, NEW w \in Workers, LeaveLock(w), ~Busy(w), CountersHold'
  PROVE  WorkerInv'
<1> USE DEF WorkerInv
<1>1. /\ lock' = IF w \in holding /\ ~leaked THEN Nobody ELSE lock
      /\ holding' = holding \ {w} /\ leaked' = leaked /\ run' = [run EXCEPT ![w] = Off]
      /\ UNCHANGED << periodVars, batchVars, delivering >>
  BY DEF LeaveLock
<1>2. BatchesHold' /\ DeliveriesHold' /\ \A s \in Senders : Busy(s)' <=> Busy(s)
  BY <1>1, BatchesStay, DeliveriesStay
<1>3. ScheduleInv'
  BY <1>1, ScheduleStays DEF periodVars
<1>4. /\ lock' \in Workers \cup {Nobody} /\ leaked' \in BOOLEAN /\ (leaked' => lock' # Nobody)
      /\ holding' \subseteq Workers
  BY <1>1 DEF LockHeld
<1>5. \A v \in holding' : lock' = v
  <2>1. CASE w \in holding
    BY <1>1, <2>1 DEF LockHeld
  <2>2. CASE w \notin holding
    BY <1>1, <2>2 DEF LockHeld
  <2> QED BY <2>1, <2>2
<1>6. RunsHold' /\ LockHeld'
  BY <1>1, <1>2, <1>4, <1>5, RunEnds, WorkersSend
<1> QED BY <1>2, <1>3, <1>6

LEMMA EndRunInv ==
  ASSUME WorkerInv, NEW w \in Workers, EndRun(w) \/ FailToRead(w)
  PROVE  WorkerInv'
<1>1. LeaveLock(w) /\ ~Busy(w)
  BY DEF EndRun, FailToRead, Free
<1>2. CountersHold'
  BY <1>1, WorkerAssumption DEF WorkerInv, CountersHold, LeaveLock, periodVars, EndRun, FailToRead
<1> QED BY <1>1, <1>2, LeaveLockInv

LEMMA CrashInv ==
  ASSUME WorkerInv, NEW w \in Workers, Crash(w)
  PROVE  WorkerInv'
<1> USE DEF WorkerInv
<1>1. /\ run' = [run EXCEPT ![w] = Off]
      /\ delivering' = [delivering EXCEPT ![w] = Nobody]
      /\ UNCHANGED << periodVars, batchVars >>
  BY DEF Crash
<1>2. BatchesHold' /\ \A b \in Batches : Prepared(b) => Prepared(b)'
  BY <1>1, BatchesStay
<1>3. DeliveriesHold' /\ ~Busy(w)' /\ \A s \in Senders \ {w} : Busy(s)' <=> Busy(s)
  BY <1>1, <1>2, DeliverIs, WorkersSend
<1>4. ScheduleInv'
  BY <1>1, ScheduleStays DEF periodVars
<1>5. CountersHold'
  BY <1>1, WorkerAssumption DEF CountersHold, Crash, periodVars
<1>6. /\ lock' \in Workers \cup {Nobody} /\ leaked' \in BOOLEAN /\ (leaked' => lock' # Nobody)
      /\ holding' \subseteq Workers /\ \A v \in holding' : lock' = v
  BY WorkerAssumption DEF Crash, LockHeld
<1>7. RunsHold' /\ LockHeld'
  BY <1>1, <1>3, <1>6, RunEnds, WorkersSend
<1> QED BY <1>2, <1>3, <1>4, <1>5, <1>7

(* prepare refuses or fails, and the run goes on with the next month.        *)
LEMMA GiveUpMonthInv ==
  ASSUME WorkerInv, NEW w \in Workers, GiveUpMonth(w), CountersHold'
  PROVE  WorkerInv'
<1> USE DEF WorkerInv
<1>1. /\ run[w].step = "prepare" /\ run[w] # Off
      /\ UNCHANGED << periodVars, batchVars, delivering, lockVars >>
  BY DEF GiveUpMonth, Free, Off
<1>2. PICK j \in Run : j.step = "monthly" /\ run' = [run EXCEPT ![w] = j]
  BY <1>1, BackToMonths DEF GiveUpMonth
<1>3. BatchesHold' /\ DeliveriesHold' /\ \A s \in Senders : Busy(s)' <=> Busy(s)
  BY <1>1, BatchesStay, DeliveriesStay
<1>4. ScheduleInv'
  BY <1>1, ScheduleStays DEF periodVars
<1>5. RunsHold' /\ LockHeld'
  BY <1>1, <1>2, <1>3, RunIs, WorkersSend
<1> QED BY <1>3, <1>4, <1>5

LEMMA PrepareFailsInv ==
  ASSUME WorkerInv, NEW w \in Workers, PrepareRefuses(w) \/ FailToPrepare(w)
  PROVE  WorkerInv'
<1>1. GiveUpMonth(w)
  BY DEF PrepareRefuses, FailToPrepare
<1>2. CountersHold'
  BY <1>1, WorkerAssumption
     DEF WorkerInv, CountersHold, GiveUpMonth, periodVars, PrepareRefuses, FailToPrepare
<1> QED BY <1>1, <1>2, GiveUpMonthInv

LEMMA RunStepInv ==
  ASSUME WorkerInv, NEW w \in Workers, RunStep(w)
  PROVE  WorkerInv'
BY StartRunInv, ReadRetriesInv, RetryInv, ReadSchedulesInv, ConsiderMonthInv, PrepareMonthInv,
   PrepareFailsInv, SendMonthInv, EndRunInv DEF RunStep

(***************************************************************************)
(* The other failures, the administrators, and time.                       *)
(***************************************************************************)
LEMMA FailToDeliverInv ==
  ASSUME WorkerInv, NEW s \in Senders, FailToDeliver(s)
  PROVE  WorkerInv'
<1> USE DEF WorkerInv
<1>1. /\ delivering' = [delivering EXCEPT ![s] = Nobody]
      /\ UNCHANGED << periodVars, batchVars, workerVars >>
  BY DEF FailToDeliver
<1>2. BatchesHold' /\ \A b \in Batches : Prepared(b) => Prepared(b)'
  BY <1>1, BatchesStay
<1>3. DeliveriesHold' /\ \A t \in Senders : Busy(t)' => Busy(t)
  BY <1>1, <1>2, DeliverIs
<1>4. ScheduleInv'
  BY <1>1, ScheduleStays DEF periodVars
<1>5. CountersHold'
  BY <1>1, WorkerAssumption DEF CountersHold, FailToDeliver, periodVars
<1>6. RunsHold' /\ LockHeld'
  BY <1>1, <1>3, LockStays, WorkersSend
<1> QED BY <1>2, <1>3, <1>4, <1>5, <1>6

(* The lock changes hands, or loses its transaction, and the runs go on.     *)
LEMMA LockMovesInv ==
  ASSUME WorkerInv, CountersHold', UNCHANGED << periodVars, batchVars, delivering, run >>,
         lock' \in Workers \cup {Nobody}, leaked' \in BOOLEAN, leaked' => lock' # Nobody,
         holding' \subseteq Workers, \A v \in holding' : lock' = v
  PROVE  WorkerInv'
<1> USE DEF WorkerInv
<1>1. BatchesHold' /\ DeliveriesHold' /\ \A s \in Senders : Busy(s)' <=> Busy(s)
  BY BatchesStay, DeliveriesStay
<1>2. ScheduleInv'
  BY ScheduleStays DEF periodVars
<1>3. RunsHold'
  BY DEF RunsHold
<1>4. LockHeld'
  BY <1>1, WorkersSend DEF LockHeld
<1> QED BY <1>1, <1>2, <1>3, <1>4

LEMMA ConnectionClosesInv ==
  ASSUME WorkerInv, ConnectionCloses
  PROVE  WorkerInv'
<1>1. CountersHold'
  BY Idles DEF ConnectionCloses
<1>2. holding = {}
  BY DEF WorkerInv, LockHeld, ConnectionCloses
<1> QED BY <1>1, <1>2, LockMovesInv DEF ConnectionCloses

LEMMA TransactionTimesOutInv ==
  ASSUME WorkerInv, NEW w \in Workers, TransactionTimesOut(w)
  PROVE  WorkerInv'
<1>1. CountersHold'
  BY WorkerAssumption DEF TransactionTimesOut, WorkerInv, CountersHold, periodVars
<1>2. /\ lock' = w /\ lock' \in Workers /\ leaked' = TRUE /\ lock' # Nobody
      /\ holding' \subseteq Workers /\ \A v \in holding' : lock' = v
  BY WorkerAssumption DEF TransactionTimesOut, WorkerInv, LockHeld
<1> QED BY <1>1, <1>2, LockMovesInv DEF TransactionTimesOut

LEMMA ShutdownInv ==
  ASSUME WorkerInv, NEW w \in Workers, Shutdown(w)
  PROVE  WorkerInv'
<1>1. CountersHold'
  BY WorkerAssumption DEF Shutdown, WorkerInv, CountersHold, periodVars
<1>2. lock' = Nobody /\ leaked' = FALSE /\ holding' = {}
  BY DEF Shutdown, WorkerInv, LockHeld
<1> QED BY <1>1, <1>2, LockMovesInv DEF Shutdown

LEMMA DeployInv ==
  ASSUME WorkerInv, NEW v \in Contracts, Deploy(v)
  PROVE  WorkerInv'
<1> USE DEF WorkerInv
<1>1. ScheduleInv'
  BY DeployContractInv DEF Deploy
<1>2. BatchesHold' /\ \A b \in Batches : Prepared(b)' <=> Prepared(b)
  BY BatchesStay DEF Deploy
<1>3. CountersHold'
  BY DEF Deploy, CountersHold
<1>4. PICK stopped \in SUBSET Senders :
        /\ run' = [w \in Workers |-> IF w \in stopped THEN Off ELSE run[w]]
        /\ delivering' = [s \in Senders |-> IF s \in stopped THEN Nobody ELSE delivering[s]]
  BY DEF Deploy
<1>5. \A s \in Senders : Busy(s)' <=> Busy(s) /\ s \notin stopped
  BY <1>4 DEF Busy
<1>6. DeliveriesHold'
  <2>1. delivering' \in [Senders -> Delivery \cup {Nobody}]
    BY <1>4 DEF DeliveriesHold
  <2>2. ASSUME NEW s \in Senders, Busy(s)'
        PROVE  Prepared(delivering[s].batch)'
    <3>1. Busy(s) /\ delivering'[s] = delivering[s] /\ delivering[s].batch \in Batches
      BY <1>4, <1>5, <2>2 DEF DeliveriesHold, Busy, Delivery
    <3> QED BY <1>2, <3>1 DEF DeliveriesHold
  <2> QED BY <2>1, <2>2 DEF DeliveriesHold
<1>7. Off \in Run /\ Off.step = "off"
  BY DEF Off, Run, Steps
<1>8. RunsHold'
  BY <1>4, <1>7 DEF RunsHold
<1>9. LockHeld'
  <2>1. lock' = Nobody /\ leaked' = FALSE /\ holding' = {}
    BY DEF Deploy
  <2>2. \A w \in Workers : run'[w] = Off \/ (run'[w] = run[w] /\ w \notin stopped)
    BY <1>4
  <2>3. \A w \in Workers : Busy(w)' => run'[w] # Off
    BY <1>4, <1>5, WorkersSend DEF LockHeld
  <2> QED BY <1>7, <2>1, <2>2, <2>3 DEF LockHeld
<1> QED BY <1>1, <1>2, <1>3, <1>6, <1>8, <1>9

LEMMA PrepareByHandInv ==
  ASSUME WorkerInv, NEW a \in Affiliations, PrepareByHand(a)
  PROVE  WorkerInv'
<1> USE DEF WorkerInv
<1>1. << a, "manual" >> \in Batches
  BY DEF Batches
<1>2. BatchesHold' /\ \A b \in Batches : Prepared(b) => Prepared(b)'
  BY <1>1, PrepareIs DEF PrepareByHand
<1>3. DeliveriesHold' /\ \A s \in Senders : Busy(s)' <=> Busy(s)
  BY <1>2, DeliveriesStay DEF PrepareByHand
<1>4. ScheduleInv' /\ CountersHold'
  BY Idles DEF PrepareByHand
<1>5. RunsHold' /\ LockHeld'
  BY <1>3, LockStays, WorkersSend DEF PrepareByHand
<1> QED BY <1>2, <1>3, <1>4, <1>5

LEMMA DeliverByHandInv ==
  ASSUME WorkerInv, NEW o \in Operators, NEW b \in Batches, DeliverByHand(o, b)
  PROVE  WorkerInv'
<1> USE DEF WorkerInv
<1>1. o \in Senders /\ o \notin Workers
  BY WorkersSend, WorkerAssumption
<1>2. BatchesHold'
  BY BatchesStay DEF DeliverByHand
<1>3. DeliveriesHold' /\ \A s \in Senders \ {o} : Busy(s)' <=> Busy(s)
  BY <1>1, BeginDeliverIs DEF DeliverByHand
<1>4. ScheduleInv' /\ CountersHold'
  BY Idles DEF DeliverByHand
<1>5. RunsHold' /\ LockHeld'
  BY <1>1, <1>3, LockStays, WorkersSend DEF DeliverByHand
<1> QED BY <1>2, <1>3, <1>4, <1>5

LEMMA BackoffElapsesInv ==
  ASSUME WorkerInv, NEW b \in Batches, BackoffElapses(b)
  PROVE  WorkerInv'
<1> USE DEF WorkerInv
<1>1. PICK row \in Batch : batch' = [batch EXCEPT ![b] = row]
  <2>1. batch[b] \in Batch
    BY DEF BackoffElapses, BatchesHold, Prepared
  <2>2. [batch[b] EXCEPT !.next = "due"] \in Batch
    BY <2>1 DEF Batch
  <2>3. batch' = [batch EXCEPT ![b] = [batch[b] EXCEPT !.next = "due"]]
    BY DEF BackoffElapses, BatchesHold
  <2> QED BY <2>2, <2>3
<1>2. row # NoBatch
  BY WorkerAssumption
<1>3. BatchesHold' /\ \A c \in Batches : Prepared(c) => Prepared(c)'
  BY <1>1, <1>2 DEF BatchesHold, Prepared, BackoffElapses
<1>4. DeliveriesHold' /\ \A s \in Senders : Busy(s)' <=> Busy(s)
  BY <1>3, DeliveriesStay DEF BackoffElapses
<1>5. ScheduleInv' /\ CountersHold'
  BY Idles DEF BackoffElapses
<1>6. RunsHold' /\ LockHeld'
  BY <1>4, LockStays, WorkersSend DEF BackoffElapses
<1> QED BY <1>3, <1>4, <1>5, <1>6

(* No step of the worker's, but the schedules or the day change, or nothing. *)
LEMMA AsideInv ==
  ASSUME WorkerInv, ScheduleInv', CountersHold', UNCHANGED << batchVars, delivering, workerVars >>
  PROVE  WorkerInv'
<1> USE DEF WorkerInv
<1>1. BatchesHold' /\ DeliveriesHold' /\ \A s \in Senders : Busy(s)' <=> Busy(s)
  BY BatchesStay, DeliveriesStay
<1>2. RunsHold' /\ LockHeld'
  BY <1>1, LockStays, WorkersSend
<1> QED BY <1>1, <1>2

LEMMA StepInv == WorkerInv /\ [Next]_vars => WorkerInv'
<1> SUFFICES ASSUME WorkerInv, [Next]_vars PROVE WorkerInv'
  OBVIOUS
<1>1. CASE ScheduleNext /\ UNCHANGED << day, complete, batchVars, delivering, workerVars, failures >>
  <2>1. ScheduleInv' /\ CountersHold'
    BY <1>1, ScheduleStepInv DEF WorkerInv, CountersHold
  <2> QED BY <1>1, <2>1, AsideInv
<1>2. ASSUME NEW w \in Workers,
             \/ RunStep(w) \/ FailToPrepare(w) \/ FailToRead(w)
             \/ TransactionTimesOut(w) \/ Shutdown(w) \/ Crash(w)
      PROVE  WorkerInv'
  BY <1>2, RunStepInv, PrepareFailsInv, EndRunInv, TransactionTimesOutInv, ShutdownInv, CrashInv
<1>3. CASE \E s \in Senders : DeliverStep(s) \/ FailToDeliver(s)
  BY <1>3, DeliverStepInv, FailToDeliverInv
<1>4. ASSUME NEW a \in Affiliations, DataChange(a)
      PROVE  WorkerInv'
  <2>1. ScheduleInv'
    BY <1>4, ScheduleStays DEF DataChange, WorkerInv
  <2>2. CountersHold'
    BY <1>4 DEF DataChange, WorkerInv, CountersHold
  <2> QED BY <1>4, <2>1, <2>2, AsideInv DEF DataChange
<1>5. CASE DayPasses
  <2>1. ScheduleInv'
    BY <1>5, ScheduleStays DEF DayPasses, WorkerInv
  <2>2. CountersHold'
    BY <1>5, WorkerAssumption DEF DayPasses, WorkerInv, CountersHold
  <2> QED BY <1>5, <2>1, <2>2, AsideInv DEF DayPasses
<1>6. CASE UNCHANGED vars
  <2>1. ScheduleInv' /\ CountersHold'
    BY <1>6, Idles DEF vars
  <2> QED BY <1>6, <2>1, AsideInv DEF vars
<1> QED BY <1>1, <1>2, <1>3, <1>4, <1>5, <1>6, ConnectionClosesInv, PrepareByHandInv,
        DeliverByHandInv, BackoffElapsesInv, DeployInv DEF Next

LEMMA SpecInv == Spec => []WorkerInv
BY InitInv, StepInv, PTL DEF Spec

(***************************************************************************)
(* The theorems.                                                           *)
(***************************************************************************)
(* Type correctness: every row, request, run, deliver call and counter keeps *)
(* its shape, and a leaked lock has a holder.                                *)
THEOREM TypeCorrect == Spec => []TypeOK
<1>1. WorkerInv => TypeOK
  BY DEF WorkerInv, ScheduleInv, BatchesHold, DeliveriesHold, RunsHold, LockHeld, CountersHold, TypeOK
<1> QED BY <1>1, SpecInv, PTL

(* Of two workers that are at work while one delivers, one has lost the      *)
(* transaction that took the named lock, to a shutdown or to its timeout;    *)
(* and no end of such a run, crash, release or leaked lock takes the lock    *)
(* from the run that has it (withWorkerLock of LeaveSnapshotWorkerService).  *)
THEOREM OverlapOnlyByLostLockCorrect == Spec => []OverlapOnlyByLostLock
<1>1. WorkerInv => OverlapOnlyByLostLock
  BY DEF WorkerInv, LockHeld, OverlapOnlyByLostLock
<1> QED BY <1>1, SpecInv, PTL

(* The approval gate: an approved schedule is signed and does what its       *)
(* approval checked, unless a draft overtook the approval between its read   *)
(* and its update (approve and upsertDraft).                                 *)
THEOREM ApprovalGapCorrect == Spec => []ApprovalGapOnlyByRace
<1>1. WorkerInv => ApprovalGapOnlyByRace
  BY DEF WorkerInv, ScheduleInv
<1> QED BY <1>1, SpecInv, PTL
=============================================================================
