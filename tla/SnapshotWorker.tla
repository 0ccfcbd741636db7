---------------------------- MODULE SnapshotWorker ----------------------------
(***************************************************************************)
(* LeaveSnapshotWorkerService and its loop, for one period and several     *)
(* affiliations.  A run takes a named lock on the connection of a          *)
(* transaction; it retries the deliveries that are due and then, for each  *)
(* approved schedule whose cutoff has come, prepares and delivers the      *)
(* period's first batch.  The run may outlive its lock: when the process   *)
(* is told to shut down, or when the transaction times out, it goes on.    *)
(* Administrators may prepare and deliver by hand at the same time,        *)
(* without the lock.                                                       *)
(*                                                                         *)
(* A delivery here is what LeaveSnapshots describes in detail, seen from   *)
(* the worker: its answer is any of the three outcomes that the worker's   *)
(* query can tell apart.  Batches are those of the monthly run and those   *)
(* prepared by hand, at most one of each per affiliation.  The worker is   *)
(* in mode ALL, with the monthly run enabled and for all affiliations.     *)
(***************************************************************************)
EXTENDS SnapshotSchedules, FiniteSets

CONSTANTS
  Active,        \* the ACTIVE affiliations
  Workers,       \* worker processes
  Operators,     \* API requests that prepare or deliver by hand
  MaxAttempts,   \* MAX_DELIVERY_ATTEMPTS
  BatchSize,     \* ONEDATA_WORKER_BATCH_SIZE
  LastDay,       \* bound: days after the period's end that the model counts
  MaxFailures,   \* bound: crashes, shutdowns, timeouts, failed queries and transactions
  NoBatch,       \* a batch row that does not exist
  Nobody         \* no lock holder, no delivery in progress, no affiliation

Batches == Affiliations \X { "monthly", "manual" }
AffiliationOf(b) == b[1]

(* APPLIED stands for DUPLICATE too.  next describes nextAttemptAt of the    *)
(* latest delivery: null, ahead, or come.                                    *)
BatchStatuses == { "PREPARED", "DELIVERING", "APPLIED", "RETRYABLE_FAILURE", "FAILED" }
Batch ==
  [ status : BatchStatuses, attempt : 0 .. MaxAttempts, next : {"none", "ahead", "due"} ]

Senders == Workers \cup Operators

(* A deliver call in progress: the attempt it computed, and whether its      *)
(* first transaction is done.                                                *)
Delivery == [ batch : Batches, attempt : 1 .. MaxAttempts, sent : BOOLEAN ]

(* A run: retries and months are what is left of the two lists it read;      *)
(* month is the affiliation that it prepares for, then the batch to be sent; *)
(* version is the contract version that its process is configured with.      *)
Steps == { "off", "retry", "resend", "monthly", "prepare", "send" }
Run ==
  [ step : Steps, retries : SUBSET Batches,
    months : SUBSET [ affiliation : Affiliations, config : Configuration ],
    month : Affiliations \cup Batches \cup {Nobody},
    version : Contracts \cup {Nobody} ]
Off == [ step |-> "off", retries |-> {}, months |-> {}, month |-> Nobody, version |-> Nobody ]

ASSUME WorkerAssumption ==
  /\ Active \subseteq Affiliations
  /\ Workers \cap Operators = {}
  /\ MaxAttempts \in Nat \ {0}
  /\ BatchSize \in Nat \ {0}
  /\ LastDay \in Nat
  /\ MaxFailures \in Nat
  /\ NoBatch \notin Batch
  /\ Nobody \notin Workers \cup Affiliations \cup Batches \cup Delivery

VARIABLES
  day,         \* days since the period ended
  complete,    \* the affiliations of whose period prepare refuses nothing
  batch,       \* LeaveExportBatch rows with their latest delivery
  older,       \* the pairs of batches of which the first was updated before
  delivering,  \* the deliver call of each sender
  lock,        \* holder of the named lock
  leaked,      \* a pooled connection of the holder keeps the lock
  holding,     \* workers whose transaction with the lock is open
  run,         \* the run of each worker
  failures     \* history: the failures so far

periodVars == << scheduleVars, day, complete >>
batchVars == << batch, older >>
lockVars == << lock, leaked, holding >>
workerVars == << lockVars, run >>
vars == << periodVars, batchVars, delivering, workerVars, failures >>

Init ==
  /\ ScheduleInit
  /\ day = 0
  /\ complete \in SUBSET Affiliations
  /\ batch = [b \in Batches |-> NoBatch]
  /\ older = {}
  /\ delivering = [s \in Senders |-> Nobody]
  /\ lock = Nobody
  /\ leaked = FALSE
  /\ holding = {}
  /\ run = [w \in Workers |-> Off]
  /\ failures = 0

(***************************************************************************)
(* deliver and prepare, as the worker and the API call them.               *)
(***************************************************************************)
Prepared(b) == batch[b] # NoBatch

(* Every update of a row moves it to the end of the order by updatedAt.      *)
MoveToEnd(b) ==
  older' = {p \in older : b \notin {p[1], p[2]}} \cup
             {<< c, b >> : c \in {x \in Batches \ {b} : Prepared(x)}}

Store(b, row) ==
  /\ batch' = [batch EXCEPT ![b] = row]
  /\ MoveToEnd(b)

Prepare(b) == Store(b, [status |-> "PREPARED", attempt |-> 0, next |-> "none"])

(* Mutant: the number of attempts is not bounded.                            *)
MayDeliverForever(b) ==
  /\ Prepared(b)
  /\ batch[b].status \notin {"APPLIED", "FAILED"}
  /\ batch[b].next # "ahead"

(* deliver's refusals.                                                       *)
MayDeliver(b) ==
  /\ Prepared(b)
  /\ batch[b].status \notin {"APPLIED", "FAILED"}
  /\ batch[b].next # "ahead"
  /\ batch[b].attempt < MaxAttempts

(* deliver's reads.                                                          *)
BeginDeliver(s, b) ==
  delivering' = [delivering EXCEPT ![s] =
    [batch |-> b, attempt |-> batch[b].attempt + 1, sent |-> FALSE]]

Busy(s) == delivering[s] # Nobody

(* The first transaction inserts the attempt under its unique number.        *)
StartSending(s) ==
  LET d == delivering[s]
  IN  /\ Busy(s) /\ ~d.sent
      /\ batch[d.batch].attempt < d.attempt
      /\ Store(d.batch, [status |-> "DELIVERING", attempt |-> d.attempt, next |-> "none"])
      /\ delivering' = [delivering EXCEPT ![s].sent = TRUE]
      /\ UNCHANGED << periodVars, workerVars, failures >>

(* The number is taken: the insert fails, and deliver with it.               *)
FailToStart(s) ==
  LET d == delivering[s]
  IN  /\ Busy(s) /\ ~d.sent
      /\ batch[d.batch].attempt >= d.attempt
      /\ delivering' = [delivering EXCEPT ![s] = Nobody]
      /\ UNCHANGED << periodVars, batchVars, workerVars, failures >>

(* The second transaction, for an acknowledgement, a failure that may be     *)
(* retried, or one that may not.  nextAttemptAt is written to the attempt's  *)
(* own row, which need no longer be the latest.                              *)
Settle(s, outcome) ==
  LET d == delivering[s]
      row == batch[d.batch]
      retryable == outcome = "retryable" /\ d.attempt < MaxAttempts
  IN  /\ Busy(s) /\ d.sent
      /\ Store(d.batch,
           [row EXCEPT !.status = IF outcome = "acknowledged" THEN "APPLIED"
                                  ELSE IF retryable THEN "RETRYABLE_FAILURE" ELSE "FAILED",
                       !.next = IF d.attempt = row.attempt /\ retryable THEN "ahead" ELSE @])
      /\ delivering' = [delivering EXCEPT ![s] = Nobody]
      /\ UNCHANGED << periodVars, workerVars, failures >>

BackoffElapses(b) ==
  /\ Prepared(b)
  /\ batch[b].next = "ahead"
  /\ batch' = [batch EXCEPT ![b].next = "due"]
  /\ UNCHANGED << periodVars, older, delivering, workerVars, failures >>

(***************************************************************************)
(* Administrators at work by hand.                                         *)
(***************************************************************************)
PrepareByHand(a) ==
  /\ Operators # {}
  /\ a \in complete
  /\ ~Prepared(<< a, "manual" >>)
  /\ Prepare(<< a, "manual" >>)
  /\ UNCHANGED << periodVars, delivering, workerVars, failures >>

DeliverByHand(o, b) ==
  /\ ~Busy(o)
  /\ MayDeliver(b)
  /\ BeginDeliver(o, b)
  /\ UNCHANGED << periodVars, batchVars, workerVars, failures >>

(***************************************************************************)
(* One run of the worker.                                                  *)
(***************************************************************************)
Free(w, step) == run[w].step = step /\ ~Busy(w)

Begin(w) ==
  /\ lock' = w
  /\ holding' = holding \cup {w}
  /\ run' = [run EXCEPT ![w].step = "retry", ![w].version = contract]
  /\ UNCHANGED << periodVars, batchVars, delivering, leaked, failures >>

(* Mutant: the answer of GET_LOCK is ignored.                                *)
StartRunUnlocked(w) == Free(w, "off") /\ Begin(w)

(* GET_LOCK with no waiting: a worker that does not get it ends its run.  A  *)
(* connection that holds the lock already is given it once more.             *)
StartRun(w) ==
  /\ Free(w, "off")
  /\ lock = Nobody \/ lock = w
  /\ Begin(w)

(* The query takes the first page of retryable batches (each has a delivery  *)
(* that may be retried); of these the ones whose latest delivery is due are  *)
(* kept.                                                                     *)
Retryable(b) == Prepared(b) /\ batch[b].status = "RETRYABLE_FAILURE"
RetryPage ==
  {b \in Batches :
     /\ Retryable(b)
     /\ Cardinality({c \in Batches : Retryable(c) /\ << c, b >> \in older}) < BatchSize}

(* Mutant: the due deliveries are picked among one batch less.               *)
ReadRetriesShort(w) ==
  LET page == {b \in Batches :
        /\ Retryable(b)
        /\ Cardinality({c \in Batches : Retryable(c) /\ << c, b >> \in older}) < BatchSize - 1}
  IN  /\ Free(w, "retry")
      /\ run' = [run EXCEPT ![w].step = "resend",
                            ![w].retries = {b \in page : batch[b].next = "due"}]
      /\ UNCHANGED << periodVars, batchVars, delivering, lockVars, failures >>

ReadRetries(w) ==
  /\ Free(w, "retry")
  /\ run' = [run EXCEPT ![w].step = "resend",
                        ![w].retries = {b \in RetryPage : batch[b].next = "due"}]
  /\ UNCHANGED << periodVars, batchVars, delivering, lockVars, failures >>

(* A batch of an inactive affiliation, or one that deliver now refuses, only *)
(* adds an error to the report.                                              *)
Retry(w, b) ==
  /\ Free(w, "resend")
  /\ b \in run[w].retries
  /\ run' = [run EXCEPT ![w].retries = @ \ {b}]
  /\ IF AffiliationOf(b) \in Active /\ MayDeliver(b)
     THEN BeginDeliver(w, b)
     ELSE UNCHANGED delivering
  /\ UNCHANGED << periodVars, batchVars, lockVars, failures >>

(* The retries are done; the approved schedules are read.                    *)
ReadSchedules(w) ==
  /\ Free(w, "resend")
  /\ run[w].retries = {}
  /\ run' = [run EXCEPT ![w].step = "monthly",
       ![w].months = {[affiliation |-> a, config |-> schedule[a].config] :
                        a \in {x \in Active : Approved(x)}}]
  /\ UNCHANGED << periodVars, batchVars, delivering, lockVars, failures >>


(* The checks of one schedule; any batch of the period rules the month out.  *)
MonthIsDue(m, version) ==
  /\ m.config.contract = version
  /\ ~Prepared(<< m.affiliation, "monthly" >>)
  /\ ~Prepared(<< m.affiliation, "manual" >>)
  /\ day >= m.config.cutoffDays

ConsiderMonth(w, m) ==
  LET isDue == MonthIsDue(m, run[w].version)
  IN  /\ Free(w, "monthly")
      /\ m \in run[w].months
      /\ run' = [run EXCEPT ![w].months = @ \ {m},
                            ![w].step = IF isDue THEN "prepare" ELSE @,
                            ![w].month = IF isDue THEN m.affiliation ELSE @]
      /\ UNCHANGED << periodVars, batchVars, delivering, lockVars, failures >>

(* prepare makes a batch, or answers with the one that an operator has just  *)
(* prepared from the same leaves.                                            *)
PrepareMonth(w) ==
  LET made(b) == run' = [run EXCEPT ![w].step = "send", ![w].month = b]
      a == run[w].month
  IN  /\ Free(w, "prepare")
      /\ a \in complete
      /\ \/ /\ ~Prepared(<< a, "monthly" >>)
            /\ Prepare(<< a, "monthly" >>)
            /\ made(<< a, "monthly" >>)
         \/ /\ \E b \in {a} \X {"monthly", "manual"} : Prepared(b) /\ made(b)
            /\ UNCHANGED batchVars
      /\ UNCHANGED << periodVars, delivering, lockVars, failures >>

(* The month is given up, for this run.                                      *)
GiveUpMonth(w) ==
  /\ Free(w, "prepare")
  /\ run' = [run EXCEPT ![w].step = "monthly", ![w].month = Nobody]
  /\ UNCHANGED << periodVars, batchVars, delivering, lockVars >>

(* prepare refuses an incomplete period: no verified identifiers, a leave    *)
(* without one, a leave type that is not mapped, days out of range.  The     *)
(* loop notes the error and goes on.                                         *)
PrepareRefuses(w) ==
  /\ run[w].month \notin complete
  /\ GiveUpMonth(w)
  /\ UNCHANGED failures

(* deliver right after prepare; an operator may have been quicker.           *)
SendMonth(w) ==
  /\ Free(w, "send")
  /\ run' = [run EXCEPT ![w].step = "monthly", ![w].month = Nobody]
  /\ IF MayDeliver(run[w].month)
     THEN BeginDeliver(w, run[w].month)
     ELSE UNCHANGED delivering
  /\ UNCHANGED << periodVars, batchVars, lockVars, failures >>

(* RELEASE_LOCK; a lock that was taken twice is still held once.  When the   *)
(* transaction is gone the statement fails, and frees nothing.               *)
LeaveLock(w) ==
  /\ lock' = IF w \in holding /\ ~leaked THEN Nobody ELSE lock
  /\ holding' = holding \ {w}
  /\ run' = [run EXCEPT ![w] = Off]
  /\ UNCHANGED << periodVars, batchVars, delivering, leaked >>

EndRun(w) ==
  /\ Free(w, "monthly")
  /\ run[w].months = {}
  /\ LeaveLock(w)
  /\ UNCHANGED failures

RunStep(w) ==
  \/ StartRun(w)
  \/ ReadRetries(w)
  \/ \E b \in Batches : Retry(w, b)
  \/ ReadSchedules(w)
  \/ \E m \in run[w].months : ConsiderMonth(w, m)
  \/ PrepareMonth(w)
  \/ PrepareRefuses(w)
  \/ SendMonth(w)
  \/ EndRun(w)

DeliverStep(s) ==
  \/ StartSending(s)
  \/ FailToStart(s)
  \/ \E outcome \in {"acknowledged", "retryable", "final"} : Settle(s, outcome)

(***************************************************************************)
(* Failures.  A transaction of deliver or prepare may fail, which the run  *)
(* reports and survives; a query of the run's own lists may fail, which    *)
(* ends it; a process may die, which frees its lock.                       *)
(***************************************************************************)
FailToDeliver(s) ==
  /\ failures < MaxFailures
  /\ Busy(s)
  /\ delivering' = [delivering EXCEPT ![s] = Nobody]
  /\ failures' = failures + 1
  /\ UNCHANGED << periodVars, batchVars, workerVars >>

FailToPrepare(w) ==
  /\ failures < MaxFailures
  /\ GiveUpMonth(w)
  /\ failures' = failures + 1

(* A query for the retries, for the schedules, or for a batch of the period. *)
FailToRead(w) ==
  /\ failures < MaxFailures
  /\ \/ Free(w, "retry")
     \/ Free(w, "resend") /\ run[w].retries = {}
     \/ Free(w, "monthly") /\ run[w].months # {}
  /\ LeaveLock(w)
  /\ failures' = failures + 1

(* The transaction that took the lock has no timeout of its own, hence the   *)
(* client's, far below that of a post: the run goes on, and a connection of  *)
(* the pool keeps the lock.                                                  *)
TransactionTimesOut(w) ==
  /\ failures < MaxFailures
  /\ w \in holding
  /\ holding' = holding \ {w}
  /\ leaked' = TRUE
  /\ failures' = failures + 1
  /\ UNCHANGED << periodVars, batchVars, delivering, lock, run >>

(* That connection is closed, and its lock is free.                          *)
ConnectionCloses ==
  /\ leaked
  /\ lock \notin holding
  /\ lock' = Nobody
  /\ leaked' = FALSE
  /\ UNCHANGED << periodVars, batchVars, delivering, holding, run, failures >>

(* SIGTERM: the connections are closed, and the lock is free; nobody waits   *)
(* for the run in progress, which goes on over new ones.                     *)
Shutdown(w) ==
  /\ failures < MaxFailures
  /\ lock = w
  /\ lock' = Nobody
  /\ leaked' = FALSE
  /\ holding' = holding \ {w}
  /\ failures' = failures + 1
  /\ UNCHANGED << periodVars, batchVars, delivering, run >>

(* The process dies.                                                         *)
Crash(w) ==
  /\ failures < MaxFailures
  /\ run[w] # Off
  /\ lock' = IF lock = w THEN Nobody ELSE lock
  /\ leaked' = (leaked /\ lock # w)
  /\ holding' = holding \ {w}
  /\ run' = [run EXCEPT ![w] = Off]
  /\ delivering' = [delivering EXCEPT ![w] = Nobody]
  /\ failures' = failures + 1
  /\ UNCHANGED << periodVars, batchVars >>

(* A release replaces every process.  Some are stopped at once; what others  *)
(* were doing goes on, with the old configuration, beside the new ones.      *)
Deploy(v) ==
  /\ DeployContract(v)
  /\ lock' = Nobody
  /\ leaked' = FALSE
  /\ holding' = {}
  /\ \E stopped \in SUBSET Senders :
       /\ run' = [w \in Workers |-> IF w \in stopped THEN Off ELSE run[w]]
       /\ delivering' = [s \in Senders |-> IF s \in stopped THEN Nobody ELSE delivering[s]]
  /\ UNCHANGED << day, complete, batchVars, failures >>

(* Identifiers are verified, leaves are decided: a period that prepare       *)
(* refuses becomes complete, or the reverse.                                 *)
DataChange(a) ==
  /\ complete' = IF a \in complete THEN complete \ {a} ELSE complete \cup {a}
  /\ UNCHANGED << scheduleVars, day, batchVars, delivering, workerVars, failures >>

DayPasses ==
  /\ day < LastDay
  /\ day' = day + 1
  /\ UNCHANGED << scheduleVars, complete, batchVars, delivering, workerVars, failures >>

Next ==
  \/ ScheduleNext /\ UNCHANGED << day, complete, batchVars, delivering, workerVars, failures >>
  \/ \E w \in Workers :
       \/ RunStep(w)
       \/ FailToPrepare(w) \/ FailToRead(w) \/ TransactionTimesOut(w)
       \/ Shutdown(w) \/ Crash(w)
  \/ ConnectionCloses
  \/ \E s \in Senders : DeliverStep(s) \/ FailToDeliver(s)
  \/ \E a \in Affiliations : PrepareByHand(a) \/ DataChange(a)
  \/ \E o \in Operators, b \in Batches : DeliverByHand(o, b)
  \/ \E b \in Batches : BackoffElapses(b)
  \/ \E v \in Contracts : Deploy(v)
  \/ DayPasses

(* The loop starts runs for as long as it is up, a run that has started goes *)
(* on, and the client's timeout ends every post; time passes, and a server   *)
(* closes idle connections in the end.  Nobody has to use the API.           *)
Fairness ==
  /\ \A w \in Workers : WF_vars(RunStep(w))
  /\ \A s \in Senders : WF_vars(DeliverStep(s))
  /\ \A b \in Batches : WF_vars(BackoffElapses(b))
  /\ WF_vars(DayPasses)
  /\ WF_vars(ConnectionCloses)

Spec == Init /\ [][Next]_vars /\ Fairness
-----------------------------------------------------------------------------
(***************************************************************************)
(* Properties.                                                             *)
(***************************************************************************)
TypeOK ==
  /\ ScheduleTypeOK
  /\ day \in 0 .. LastDay
  /\ complete \subseteq Affiliations
  /\ batch \in [Batches -> Batch \cup {NoBatch}]
  /\ older \subseteq Batches \X Batches
  /\ delivering \in [Senders -> Delivery \cup {Nobody}]
  /\ lock \in Workers \cup {Nobody}
  /\ leaked \in BOOLEAN
  /\ leaked => lock # Nobody
  /\ holding \subseteq Workers
  /\ run \in [Workers -> Run]
  /\ failures \in 0 .. MaxFailures

(* A retryable failure whose latest delivery has its nextAttemptAt is always *)
(* tried again, or settled by somebody else: no crash, lock contention or    *)
(* competing operator makes the worker lose it, as long as the page of its   *)
(* query has room for every batch.                                           *)
RetriesHappen ==
  \A b \in Batches :
    LET scheduled == Prepared(b) /\ batch[b].status = "RETRYABLE_FAILURE" /\ batch[b].next # "none"
    IN  (scheduled /\ AffiliationOf(b) \in Active) ~> ~scheduled


(* What the named lock gives: while a worker delivers another one is at work *)
(* only if one of the two has lost the transaction that took the lock, to a  *)
(* shutdown or to its timeout; and the end of a run that has lost it does    *)
(* not free the lock of the run that has it now.                             *)
OverlapOnlyByLostLock ==
  /\ \A w, v \in Workers : w # v /\ Busy(w) /\ run[v] # Off => ~({w, v} \subseteq holding)
  /\ \A w \in holding : lock = w

-----------------------------------------------------------------------------
(***************************************************************************)
(* What documents of the repository say, and the code does not keep.       *)
(***************************************************************************)
(* A worker may be restarted safely: the batch that its monthly run prepared *)
(* is sent.                                                                  *)
MonthIsSent ==
  \A a \in Active :
    LET waits == Prepared(<< a, "monthly" >>) /\ batch[<< a, "monthly" >>].status = "PREPARED"
    IN  waits ~> ~waits
=============================================================================
