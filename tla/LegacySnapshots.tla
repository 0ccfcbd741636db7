---------------------------- MODULE LegacySnapshots ----------------------------
(***************************************************************************)
(* The Laravel LeaveSnapshotService, for one month, beside LegacyLeave:    *)
(* prepare puts the confirmed leaves of the month into a batch with the    *)
(* next version, unless there is one with this content; send posts a batch *)
(* and notes the outcome.  Only the version and the idempotency key are    *)
(* unique; send runs outside any transaction, statement by statement, on   *)
(* the model of the batch that was loaded when the request came.           *)
(*                                                                         *)
(* Such a model writes a column only when its value differs from the one   *)
(* that was loaded or written last by the same request.                    *)
(*                                                                         *)
(* Numbers of attempts and the answers' texts are left out.  Special is    *)
(* external: it takes a snapshot or not, and its answer arrives or not.    *)
(***************************************************************************)
EXTENDS LegacyLeave

CONSTANTS
  PeriodFirst, PeriodLast,  \* the month
  Senders,                  \* slots for prepare and send requests
  NoBatch,                  \* a batch row that does not exist
  NoJob,                    \* a slot that is not in use
  MaxVersion,               \* bound: versions of the month
  MaxDeliveries             \* bound: deliveries

Versions == 1 .. MaxVersion
BatchStatuses == { "PENDING", "DRY_RUN", "ACKNOWLEDGED", "FAILED" }
DeliveryStatuses == { "SENDING", "DRY_RUN", "ACKNOWLEDGED", "FAILED" }

(* What the idempotency key covers: a leave that is confirmed is in its      *)
(* second revision, and changes no more until it is cancelled.               *)
Content == { x \in [ leaves : SUBSET Leaves, unmapped : SUBSET Leaves ] : x.unmapped \subseteq x.leaves }
Batch == [ content : Content, status : BatchStatuses ]

(* left: the leaves whose mapping is still to be looked up.                  *)
PrepareJob == { x \in [ op : {"read"}, content : Content, left : SUBSET Leaves ] :
                  x.left \subseteq x.content.leaves }
            \cup [ op : {"absent"}, content : Content ]
            \cup [ op : {"numbered"}, content : Content, version : Versions ]

(* dry: the setting that the request runs with; stored: the status that the  *)
(* model believes the row to have; delivery: the index of its delivery (0:   *)
(* none yet).                                                                *)
SendSteps == { "loaded", "sending", "answered", "noted", "settled", "refused",
               "unnoted", "failed", "dry" }
SendJob ==
  [ op : {"send"}, version : Versions, step : SendSteps, dry : BOOLEAN,
    stored : BatchStatuses, delivery : 0 .. MaxDeliveries ]

ASSUME LegacySnapshotAssumption ==
  /\ PeriodFirst \in Dates /\ PeriodLast \in Dates
  /\ MaxVersion \in Nat /\ MaxDeliveries \in Nat
  /\ Senders = Requests
  /\ NoBatch \notin Batch
  /\ NoJob \notin PrepareJob \cup SendJob

VARIABLES
  mapped,     \* persons with an ExternalIdMapping
  dryRun,     \* services.special_allowances.dry_run
  batch,      \* LeaveExportBatch rows by snapshot_version, with their items
  deliveries, \* IntegrationDelivery rows of each version, oldest first: status
  job,        \* what each request in progress has read
  taken       \* Special: the versions it has taken

snapshotVars == << mapped, dryRun, batch, deliveries, job, taken >>
vars == << leaveVars, snapshotVars >>

Init ==
  /\ LeaveInit
  /\ mapped \in SUBSET Persons
  /\ dryRun \in BOOLEAN
  /\ batch = [ v \in Versions |-> NoBatch ]
  /\ deliveries = [ v \in Versions |-> << >> ]
  /\ job = [ c \in Senders |-> NoJob ]
  /\ taken = {}

Doing(c, op) == job[c] # NoJob /\ job[c].op = op
Sending(c, step) == Doing(c, "send") /\ job[c].step = step
GoOn(c, next) == job' = [ job EXCEPT ![c] = next ]
Prepared(v) == batch[v] # NoBatch

(***************************************************************************)
(* The master-data synchronisation adds mappings; a release may end the    *)
(* dry runs.  It reloads the server gracefully: a request in progress      *)
(* finishes with the setting that it began with.                           *)
(***************************************************************************)
MapPerson(p) ==
  /\ p \notin mapped
  /\ mapped' = mapped \cup {p}
  /\ UNCHANGED << dryRun, batch, deliveries, job, taken >>

GoLive ==
  /\ dryRun
  /\ dryRun' = FALSE
  /\ UNCHANGED << mapped, batch, deliveries, job, taken >>

(***************************************************************************)
(* prepare.                                                                *)
(***************************************************************************)
InPeriod(l) == Meet(leave[l].form, [ first |-> PeriodFirst, last |-> PeriodLast ])

(* The confirmed leaves of the month.                                        *)
ReadLeaves(c) ==
  LET leaves == { l \in Effective : InPeriod(l) }
  IN  /\ job[c] = NoJob
      /\ GoOn(c, [ op |-> "read", content |-> [ leaves |-> leaves, unmapped |-> {} ],
                    left |-> leaves ])
      /\ UNCHANGED << mapped, dryRun, batch, deliveries, taken >>

(* Leave by leave, the mapping of its person.                                *)
LookUpMapping(c) ==
  /\ Doing(c, "read")
  /\ \E l \in job[c].left :
       GoOn(c, [ op |-> "read", left |-> job[c].left \ {l},
                 content |-> IF leave[l].form.person \in mapped THEN job[c].content
                             ELSE [ job[c].content EXCEPT !.unmapped = @ \cup {l} ] ])
  /\ UNCHANGED << mapped, dryRun, batch, deliveries, taken >>

Known(content) == { v \in Versions : Prepared(v) /\ batch[v].content = content }

(* A batch with this content is the answer, whichever version it is.         *)
FindExisting(c) ==
  /\ Doing(c, "read")
  /\ job[c].left = {}
  /\ GoOn(c, IF Known(job[c].content) = {} THEN [ op |-> "absent", content |-> job[c].content ]
             ELSE NoJob)
  /\ UNCHANGED << mapped, dryRun, batch, deliveries, taken >>

(* Mutant: the number of batches is the next version.                        *)
ChooseVersionByCount(c) ==
  /\ Doing(c, "absent")
  /\ GoOn(c, [ op |-> "numbered", content |-> job[c].content,
                version |-> Cardinality({ v \in Versions : Prepared(v) }) ])
  /\ UNCHANGED << mapped, dryRun, batch, deliveries, taken >>

ChooseVersion(c) ==
  /\ Doing(c, "absent")
  /\ \E next \in Versions :
       /\ \A v \in Versions : Prepared(v) => v < next
       /\ next > 1 => Prepared(next - 1)
       /\ GoOn(c, [ op |-> "numbered", content |-> job[c].content, version |-> next ])
  /\ UNCHANGED << mapped, dryRun, batch, deliveries, taken >>

(* Mutant: the idempotency key is not unique.                                *)
InsertBatchTwice(c) ==
  /\ Doing(c, "numbered")
  /\ ~Prepared(job[c].version)
  /\ batch' = [ batch EXCEPT ![job[c].version] = [ content |-> job[c].content, status |-> "PENDING" ] ]
  /\ GoOn(c, NoJob)
  /\ UNCHANGED << mapped, dryRun, deliveries, taken >>

(* The batch and its items, refused by either unique key.                    *)
InsertBatch(c) ==
  /\ Doing(c, "numbered")
  /\ ~Prepared(job[c].version) /\ Known(job[c].content) = {}
  /\ batch' = [ batch EXCEPT ![job[c].version] = [ content |-> job[c].content, status |-> "PENDING" ] ]
  /\ GoOn(c, NoJob)
  /\ UNCHANGED << mapped, dryRun, deliveries, taken >>

(***************************************************************************)
(* send.                                                                   *)
(***************************************************************************)
Loaded(v) ==
  [ op |-> "send", version |-> v, step |-> "loaded", dry |-> dryRun,
    stored |-> batch[v].status, delivery |-> 0 ]

(* Mutant: an acknowledged batch is sent again.                              *)
LoadAnyBatch(c, v) ==
  /\ job[c] = NoJob
  /\ Prepared(v)
  /\ dryRun \/ batch[v].content.unmapped = {}
  /\ GoOn(c, Loaded(v))
  /\ UNCHANGED << mapped, dryRun, batch, deliveries, taken >>

(* Mutant: leaves of persons who are not mapped are sent as well.            *)
LoadUnmappedBatch(c, v) ==
  /\ job[c] = NoJob
  /\ Prepared(v)
  /\ batch[v].status # "ACKNOWLEDGED"
  /\ GoOn(c, Loaded(v))
  /\ UNCHANGED << mapped, dryRun, batch, deliveries, taken >>

(* The model is loaded and checked: an acknowledged batch is answered as it  *)
(* is; one with a person who is not mapped is for dry runs only.             *)
LoadBatch(c, v) ==
  /\ job[c] = NoJob
  /\ Prepared(v)
  /\ batch[v].status # "ACKNOWLEDGED"
  /\ dryRun \/ batch[v].content.unmapped = {}
  /\ GoOn(c, Loaded(v))
  /\ UNCHANGED << mapped, dryRun, batch, deliveries, taken >>

Deliveries == Cardinality(UNION { {v} \X DOMAIN deliveries[v] : v \in Versions })

OpenDelivery(c) ==
  LET v == job[c].version
  IN  /\ Sending(c, "loaded")
      /\ Deliveries < MaxDeliveries
      /\ deliveries' = [ deliveries EXCEPT ![v] = Append(@, "SENDING") ]
      /\ GoOn(c, [ job[c] EXCEPT !.step = "sending", !.delivery = Len(deliveries[v]) + 1 ])
      /\ UNCHANGED << mapped, dryRun, batch, taken >>

(* The model saves a status: a column that is not dirty is not written.      *)
SaveBatch(c, status, step) ==
  LET v == job[c].version
  IN  /\ batch' = IF job[c].stored = status THEN batch ELSE [ batch EXCEPT ![v].status = status ]
      /\ GoOn(c, [ job[c] EXCEPT !.step = step, !.stored = status ])
      /\ UNCHANGED << mapped, dryRun, deliveries, taken >>

SaveDelivery(c, status, next) ==
  /\ deliveries' = [ deliveries EXCEPT ![job[c].version][job[c].delivery] = status ]
  /\ GoOn(c, next)
  /\ UNCHANGED << mapped, dryRun, batch, taken >>

NoteDryRun(c) == Sending(c, "sending") /\ job[c].dry /\ SaveBatch(c, "DRY_RUN", "dry")
FinishDryRun(c) == Sending(c, "dry") /\ SaveDelivery(c, "DRY_RUN", NoJob)

(* The post: taken and answered; taken, and the answer is lost; or an error. *)
Post(c) ==
  /\ Sending(c, "sending") /\ ~job[c].dry
  /\ \/ /\ taken' = taken \cup {job[c].version}
        /\ \E step \in { "answered", "refused" } : GoOn(c, [ job[c] EXCEPT !.step = step ])
     \/ /\ GoOn(c, [ job[c] EXCEPT !.step = "refused" ])
        /\ UNCHANGED taken
  /\ UNCHANGED << mapped, dryRun, batch, deliveries >>

(* Mutant: an error is noted as an acknowledgement.                          *)
NoteAnyAnswer(c) ==
  /\ Sending(c, "answered") \/ Sending(c, "refused")
  /\ SaveBatch(c, "ACKNOWLEDGED", "noted")

NoteAcknowledgement(c) == Sending(c, "answered") /\ SaveBatch(c, "ACKNOWLEDGED", "noted")
SettleDelivery(c) ==
  /\ Sending(c, "noted")
  /\ SaveDelivery(c, "ACKNOWLEDGED", [ job[c] EXCEPT !.step = "settled" ])

(* The audit row.                                                            *)
FinishSend(c) ==
  /\ Sending(c, "settled")
  /\ GoOn(c, NoJob)
  /\ UNCHANGED << mapped, dryRun, batch, deliveries, taken >>

(* A statement after the answer fails: the catch block treats it like an     *)
(* error of the post.                                                        *)
FailToNote(c) ==
  /\ Sending(c, "answered") \/ Sending(c, "noted") \/ Sending(c, "settled")
  /\ GoOn(c, [ job[c] EXCEPT !.step = "unnoted" ])
  /\ UNCHANGED << mapped, dryRun, batch, deliveries, taken >>

NoteFailure(c) ==
  /\ Sending(c, "refused") \/ Sending(c, "unnoted")
  /\ SaveBatch(c, "FAILED", "failed")
FailDelivery(c) == Sending(c, "failed") /\ SaveDelivery(c, "FAILED", NoJob)

(* The process dies, or a statement fails where nothing catches it.          *)
Vanish(c) ==
  /\ job[c] # NoJob
  /\ GoOn(c, NoJob)
  /\ UNCHANGED << mapped, dryRun, batch, deliveries, taken >>

JobStep(c) ==
  \/ ReadLeaves(c) \/ LookUpMapping(c) \/ FindExisting(c) \/ ChooseVersion(c) \/ InsertBatch(c)
  \/ \E v \in Versions : LoadBatch(c, v)
  \/ OpenDelivery(c) \/ NoteDryRun(c) \/ FinishDryRun(c)
  \/ Post(c) \/ NoteAcknowledgement(c) \/ SettleDelivery(c) \/ FinishSend(c)
  \/ FailToNote(c) \/ NoteFailure(c) \/ FailDelivery(c) \/ Vanish(c)

(* A server process does one thing at a time.                                *)
Next ==
  \/ \E l \in Leaves : \E f \in Forms[l] : Create(l, f) /\ UNCHANGED snapshotVars
  \/ \E c \in Requests : job[c] = NoJob /\ TransitionStep(c) /\ UNCHANGED snapshotVars
  \/ \E c \in Senders : transition[c] = NoTransition /\ JobStep(c) /\ UNCHANGED leaveVars
  \/ \E p \in Persons : MapPerson(p) /\ UNCHANGED leaveVars
  \/ GoLive /\ UNCHANGED leaveVars
Spec == Init /\ [][Next]_vars

(***************************************************************************)
(* Properties.                                                             *)
(***************************************************************************)
TypeOK ==
  /\ LeaveTypeOK
  /\ mapped \subseteq Persons
  /\ dryRun \in BOOLEAN
  /\ batch \in [ Versions -> Batch \cup {NoBatch} ]
  /\ deliveries \in [ Versions -> Seq(DeliveryStatuses) ]
  /\ job \in [ Senders -> PrepareJob \cup SendJob \cup {NoJob} ]
  /\ taken \subseteq Versions

(* The versions of a month have no gap and no content twice, and a batch     *)
(* keeps its content: whatever prepares race, a version names one snapshot.  *)
VersionsExact ==
  /\ \A v \in Versions : Prepared(v) /\ v > 1 => Prepared(v - 1)
  /\ \A v, w \in Versions : Prepared(v) /\ Prepared(w) /\ batch[v].content = batch[w].content => v = w
  /\ \A v \in taken : Prepared(v)

(* Special takes no leave of a person it does not know; and what is said to  *)
(* be acknowledged, batch or delivery, was taken.                            *)
AcknowledgementsHonest ==
  /\ \A v \in taken : batch[v].content.unmapped = {}
  /\ \A v \in Versions :
       \/ Prepared(v) /\ batch[v].status = "ACKNOWLEDGED"
       \/ \E n \in DOMAIN deliveries[v] : deliveries[v][n] = "ACKNOWLEDGED"
       => v \in taken

(* An acknowledgement is overwritten only by a request that had loaded the   *)
(* batch before, in another status than the one it notes: a refused post, or *)
(* a dry run that the release which ended the dry runs has left behind; or   *)
(* by the one that wrote it and then failed to write the rest.               *)
StepsOver ==
  \A v \in Versions :
    Prepared(v) /\ batch[v].status = "ACKNOWLEDGED" /\ batch'[v].status # "ACKNOWLEDGED" =>
      \E c \in Senders :
        /\ Doing(c, "send") /\ job[c].version = v
        /\ \/ job[c].step = "refused" /\ job[c].stored \in { "PENDING", "DRY_RUN" }
           \/ /\ job[c].step = "sending" /\ job[c].stored \in { "PENDING", "FAILED" }
              /\ job[c].dry /\ ~dryRun
           \/ job[c].step = "unnoted"
AcknowledgementLostOnlyByRace == [][StepsOver]_vars
=============================================================================
