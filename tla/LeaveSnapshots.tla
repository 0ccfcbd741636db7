---------------------------- MODULE LeaveSnapshots ----------------------------
(***************************************************************************)
(* LeaveSnapshotService and the client that posts to Special-Allowances,   *)
(* for one affiliation and one period.                                     *)
(*                                                                         *)
(* prepare reads the effective leaves, then the batches of the period, and *)
(* inserts a batch with the next version unless one with the same content  *)
(* hash exists; only the two unique keys order concurrent prepares.        *)
(* deliver reads the batch, opens a numbered delivery and marks the batch  *)
(* DELIVERING in one transaction, posts, and settles delivery and batch in *)
(* a second transaction that updates both by id, unconditionally.          *)
(*                                                                         *)
(* Between any two of these steps other calls run, a process may die, and  *)
(* the post may time out while its request is still on its way.            *)
(***************************************************************************)
EXTENDS Integers, FiniteSets

CONSTANTS
  Leaves,       \* leave requests that fall in the period
  Calls,        \* slots for prepare and deliver calls in progress
  MaxAttempts,  \* MAX_DELIVERY_ATTEMPTS
  LastTime,     \* bound: the last instant of the model's clock
  Cutoffs,      \* the sourceCutoff values that callers name
  MaxVersion,   \* bound: versions prepared for the period
  NoBatch,      \* a batch row that does not exist
  NoDelivery,   \* a delivery row that does not exist
  Idle          \* an unused call slot

Times == 1 .. LastTime
Versions == 1 .. MaxVersion
Attempts == 1 .. MaxAttempts

(* What the hash covers: the cutoff and the leaves effective by it.  The     *)
(* employee rows and the fixed columns of each leave are abstracted.         *)
Content == [ cutoff : Cutoffs, leaves : SUBSET Leaves ]

BatchStatuses ==
  { "PREPARED", "DELIVERING", "APPLIED", "DUPLICATE", "RETRYABLE_FAILURE", "FAILED" }
Acknowledged == { "APPLIED", "DUPLICATE" }

Batch == [ content : Content, status : BatchStatuses ]

(* waiting: nextAttemptAt is set and lies ahead.                             *)
Delivery ==
  [ status : {"SENDING", "FAILED"} \cup Acknowledged,
    retryable : BOOLEAN, waiting : BOOLEAN ]

(* What a deliver call knows of its post: nothing (yet, or a timeout, or an   *)
(* HTTP 408, 429 or 5xx answer), an acknowledgement, or that it is final: no *)
(* endpoint is configured, another HTTP status, or a body that is no         *)
(* acknowledgement of this batch.                                            *)
Replies == { "none", "applied", "duplicate", "final" }

PrepareCall ==
  [ op : {"prepare"}, content : Content, version : 0 .. MaxVersion + 1 ]

DeliverCall ==
  [ op : {"deliver", "send"}, version : Versions, attempt : Attempts, reply : Replies ]

Request == [ version : Versions, attempt : Attempts ]

ASSUME SnapshotAssumption ==
  /\ LastTime \in Nat \ {0}
  /\ Cutoffs \subseteq Nat
  /\ MaxVersion \in Nat
  /\ MaxAttempts \in Nat \ {0}
  /\ NoBatch \notin Batch
  /\ NoDelivery \notin Delivery
  /\ Idle \notin PrepareCall \cup DeliverCall

VARIABLES
  now,          \* the clock
  leaveStatus,  \* status of each leave, as the period's query sees it
  effectiveAt,  \* when its paper approval was recorded (0: not yet)
  batch,        \* LeaveExportBatch rows, by snapshotVersion (a unique key)
  delivery,     \* LeaveExportDelivery rows, by version and attempt (a unique key)
  call,         \* what each call in progress has read
  wire,         \* requests on their way to Special
  open,         \* Special: whether the period still accepts snapshots
  accepted      \* Special: the versions it has applied, the highest one last

sourceVars == << now, leaveStatus, effectiveAt >>
tableVars == << batch, delivery >>
specialVars == << open, accepted >>
vars == << sourceVars, tableVars, call, wire, specialVars >>

Init ==
  /\ now = 1
  /\ leaveStatus = [l \in Leaves |-> "SUBMITTED"]
  /\ effectiveAt = [l \in Leaves |-> 0]
  /\ batch = [v \in Versions |-> NoBatch]
  /\ delivery = [v \in Versions |-> [a \in Attempts |-> NoDelivery]]
  /\ call = [c \in Calls |-> Idle]
  /\ wire = {}
  /\ open = TRUE
  /\ accepted = {}

(***************************************************************************)
(* The leave workflow and the clock, as far as a snapshot can see them.    *)
(***************************************************************************)
RecordPaperApproval(l) ==
  /\ leaveStatus[l] = "SUBMITTED"
  /\ leaveStatus' = [leaveStatus EXCEPT ![l] = "PAPER_APPROVED"]
  /\ effectiveAt' = [effectiveAt EXCEPT ![l] = now]
  /\ UNCHANGED << now, tableVars, call, wire, specialVars >>

VoidLeave(l) ==
  /\ leaveStatus[l] = "PAPER_APPROVED"
  /\ leaveStatus' = [leaveStatus EXCEPT ![l] = "VOIDED"]
  /\ UNCHANGED << now, effectiveAt, tableVars, call, wire, specialVars >>

Tick ==
  /\ now < LastTime
  /\ now' = now + 1
  /\ UNCHANGED << leaveStatus, effectiveAt, tableVars, call, wire, specialVars >>

EffectiveBy(cutoff) ==
  {l \in Leaves : leaveStatus[l] = "PAPER_APPROVED" /\ effectiveAt[l] <= cutoff}

(***************************************************************************)
(* prepare.                                                                *)
(***************************************************************************)
Prepared(v) == batch[v] # NoBatch

LatestVersion ==
  IF \E v \in Versions : Prepared(v)
  THEN CHOOSE v \in Versions : Prepared(v) /\ \A w \in Versions : Prepared(w) => w <= v
  ELSE 0

(* The effective leaves are read before the transaction.  A caller may name  *)
(* any cutoff, also one that lies ahead; the default is the present.         *)
BeginPrepare(c, cutoff) ==
  /\ call[c] = Idle
  /\ call' = [call EXCEPT ![c] =
       [op |-> "prepare", content |-> [cutoff |-> cutoff, leaves |-> EffectiveBy(cutoff)],
        version |-> 0]]
  /\ UNCHANGED << sourceVars, tableVars, wire, specialVars >>

Preparing(c) == call[c] # Idle /\ call[c].op = "prepare"

(* The transaction's reads: a batch with this content is answered as it is.  *)
FindExisting(c) ==
  /\ Preparing(c)
  /\ call[c].version = 0
  /\ \E v \in Versions : Prepared(v) /\ batch[v].content = call[c].content
  /\ call' = [call EXCEPT ![c] = Idle]
  /\ UNCHANGED << sourceVars, tableVars, wire, specialVars >>

ChooseVersion(c) ==
  /\ Preparing(c)
  /\ call[c].version = 0
  /\ \A v \in Versions : ~(Prepared(v) /\ batch[v].content = call[c].content)
  /\ call' = [call EXCEPT ![c].version = LatestVersion + 1]
  /\ UNCHANGED << sourceVars, tableVars, wire, specialVars >>

(* Mutant: the insert is an upsert.                                          *)
UpsertBatch(c) ==
  /\ Preparing(c)
  /\ call[c].version \in Versions
  /\ batch' = [batch EXCEPT ![call[c].version] =
                 [content |-> call[c].content, status |-> "PREPARED"]]
  /\ call' = [call EXCEPT ![c] = Idle]
  /\ UNCHANGED << sourceVars, delivery, wire, specialVars >>

(* The insert, refused by either unique key of the period.                   *)
InsertBatch(c) ==
  /\ Preparing(c)
  /\ call[c].version \in Versions
  /\ ~Prepared(call[c].version)
  /\ \A v \in Versions : ~(Prepared(v) /\ batch[v].content = call[c].content)
  /\ batch' = [batch EXCEPT ![call[c].version] =
                 [content |-> call[c].content, status |-> "PREPARED"]]
  /\ call' = [call EXCEPT ![c] = Idle]
  /\ UNCHANGED << sourceVars, delivery, wire, specialVars >>

(***************************************************************************)
(* deliver.                                                                *)
(***************************************************************************)
Opened(v, a) == delivery[v][a] # NoDelivery

LatestAttempt(v) ==
  IF \E a \in Attempts : Opened(v, a)
  THEN CHOOSE a \in Attempts : Opened(v, a) /\ \A b \in Attempts : Opened(v, b) => b <= a
  ELSE 0

(* Mutant: the number of attempts is not bounded.                            *)
BeginDeliverForever(c, v) ==
  /\ call[c] = Idle
  /\ Prepared(v)
  /\ batch[v].status \notin Acknowledged \cup {"FAILED"}
  /\ LatestAttempt(v) > 0 => ~delivery[v][LatestAttempt(v)].waiting
  /\ call' = [call EXCEPT ![c] =
       [op |-> "deliver", version |-> v, attempt |-> LatestAttempt(v) + 1, reply |-> "none"]]
  /\ UNCHANGED << sourceVars, tableVars, wire, specialVars >>

(* deliver's reads and refusals.  An acknowledged batch is answered as it    *)
(* is, and a FAILED one is refused: neither changes anything.                *)
BeginDeliver(c, v) ==
  /\ call[c] = Idle
  /\ Prepared(v)
  /\ batch[v].status \notin Acknowledged \cup {"FAILED"}
  /\ LatestAttempt(v) > 0 => ~delivery[v][LatestAttempt(v)].waiting
  /\ LatestAttempt(v) + 1 <= MaxAttempts
  /\ call' = [call EXCEPT ![c] =
       [op |-> "deliver", version |-> v, attempt |-> LatestAttempt(v) + 1, reply |-> "none"]]
  /\ UNCHANGED << sourceVars, tableVars, wire, specialVars >>

SetStatus(v, s) == batch' = [batch EXCEPT ![v].status = s]

(* Mutant: two deliveries of a batch may have the same number.               *)
StartSendingTwice(c, configured) ==
  LET k == call[c]
  IN  /\ k # Idle
      /\ k.op = "deliver"
      /\ delivery' = [delivery EXCEPT ![k.version][k.attempt] =
                        [status |-> "SENDING", retryable |-> FALSE, waiting |-> FALSE]]
      /\ SetStatus(k.version, "DELIVERING")
      /\ call' = [call EXCEPT ![c].op = "send",
                              ![c].reply = IF configured THEN "none" ELSE "final"]
      /\ wire' = IF configured
                 THEN wire \cup {[version |-> k.version, attempt |-> k.attempt]}
                 ELSE wire
      /\ UNCHANGED << sourceVars, specialVars >>

(* The first transaction, refused if the attempt's number is taken; then the *)
(* post, unless there is nowhere to post to.                                 *)
StartSending(c, configured) ==
  LET k == call[c]
  IN  /\ k # Idle
      /\ k.op = "deliver"
      /\ ~Opened(k.version, k.attempt)
      /\ delivery' = [delivery EXCEPT ![k.version][k.attempt] =
                        [status |-> "SENDING", retryable |-> FALSE, waiting |-> FALSE]]
      /\ SetStatus(k.version, "DELIVERING")
      /\ call' = [call EXCEPT ![c].op = "send",
                              ![c].reply = IF configured THEN "none" ELSE "final"]
      /\ wire' = IF configured
                 THEN wire \cup {[version |-> k.version, attempt |-> k.attempt]}
                 ELSE wire
      /\ UNCHANGED << sourceVars, specialVars >>

Sending(c) == call[c] # Idle /\ call[c].op = "send"

(* The second transaction.                                                   *)
Settle(c, row, s) ==
  /\ delivery' = [delivery EXCEPT ![call[c].version][call[c].attempt] = row]
  /\ SetStatus(call[c].version, s)
  /\ call' = [call EXCEPT ![c] = Idle]
  /\ UNCHANGED << sourceVars, wire, specialVars >>

(* Mutants: a duplicate is recorded as an application; any answer counts as  *)
(* an acknowledgement.                                                       *)
RecordEveryAcknowledgementAsApplied(c) ==
  /\ Sending(c)
  /\ call[c].reply \in {"applied", "duplicate"}
  /\ Settle(c, [status |-> "APPLIED", retryable |-> FALSE, waiting |-> FALSE], "APPLIED")

RecordAnyAnswerAsAcknowledgement(c) ==
  /\ Sending(c)
  /\ call[c].reply # "none"
  /\ LET s == IF call[c].reply = "duplicate" THEN "DUPLICATE" ELSE "APPLIED"
     IN  Settle(c, [status |-> s, retryable |-> FALSE, waiting |-> FALSE], s)

RecordAcknowledgement(c) ==
  /\ Sending(c)
  /\ call[c].reply \in {"applied", "duplicate"}
  /\ LET s == IF call[c].reply = "duplicate" THEN "DUPLICATE" ELSE "APPLIED"
     IN  Settle(c, [status |-> s, retryable |-> FALSE, waiting |-> FALSE], s)

(* deliveryFailure: what is final may not be retried; the rest may, also a    *)
(* failure to record an acknowledgement.                                     *)
MayRetry(reply) == reply # "final"

(* Mutant: the row's retryable column is left at its default.                *)
RecordFailureWithoutRetryable(c) ==
  /\ Sending(c)
  /\ LET retryable == MayRetry(call[c].reply) /\ call[c].attempt < MaxAttempts
     IN  Settle(c, [status |-> "FAILED", retryable |-> FALSE, waiting |-> retryable],
                IF retryable THEN "RETRYABLE_FAILURE" ELSE "FAILED")

RecordFailure(c) ==
  /\ Sending(c)
  /\ LET retryable == MayRetry(call[c].reply) /\ call[c].attempt < MaxAttempts
     IN  Settle(c, [status |-> "FAILED", retryable |-> retryable, waiting |-> retryable],
                IF retryable THEN "RETRYABLE_FAILURE" ELSE "FAILED")

(* The backoff of the latest attempt runs out; nobody reads an earlier one's. *)
BackoffElapses(v) ==
  /\ LatestAttempt(v) > 0
  /\ delivery[v][LatestAttempt(v)].waiting
  /\ delivery' = [delivery EXCEPT ![v][LatestAttempt(v)].waiting = FALSE]
  /\ UNCHANGED << sourceVars, batch, call, wire, specialVars >>

(* A refused insert, a database failure, or the death of the process.  What  *)
(* was committed stays; nothing else is written.                             *)
AbandonCall(c) ==
  /\ call[c] # Idle
  /\ call' = [call EXCEPT ![c] = Idle]
  /\ UNCHANGED << sourceVars, tableVars, wire, specialVars >>

(***************************************************************************)
(* Special-Allowances, as the contract and the client use it.  A request   *)
(* received after the client gave up still counts, and its answer reaches  *)
(* nobody; the body of an answer may be cut off or be no acknowledgement.  *)
(***************************************************************************)
Answer(r, reply) ==
  /\ r \in wire
  /\ wire' = wire \ {r}
  /\ call' = [c \in Calls |->
       IF Sending(c) /\ call[c].version = r.version /\ call[c].attempt = r.attempt
       THEN [call[c] EXCEPT !.reply = reply] ELSE call[c]]
  /\ UNCHANGED << sourceVars, tableVars, open >>

IsNewest(v) == \A w \in accepted : w < v

SpecialApplies(r, reply) ==
  /\ open
  /\ IsNewest(r.version)
  /\ reply \in {"applied", "final"}
  /\ accepted' = accepted \cup {r.version}
  /\ Answer(r, reply)

(* The contract does not say which is noticed first, the repetition or the   *)
(* lock: after a lock both answers are possible.                             *)
SpecialRepeats(r, reply) ==
  /\ r.version \in accepted
  /\ reply \in {"duplicate", "final"}
  /\ Answer(r, reply)
  /\ UNCHANGED accepted

SpecialRefuses(r) ==
  /\ ~open \/ (r.version \notin accepted /\ ~IsNewest(r.version))
  /\ Answer(r, "final")
  /\ UNCHANGED accepted

(* The request is lost, or answered with 408, 429 or 5xx.                    *)
SpecialIsUnavailable(r) ==
  /\ Answer(r, "none")
  /\ UNCHANGED accepted

SpecialLocksPeriod ==
  /\ open
  /\ open' = FALSE
  /\ UNCHANGED << sourceVars, tableVars, call, wire, accepted >>

SpecialNext ==
  \/ \E r \in wire, reply \in Replies : SpecialApplies(r, reply) \/ SpecialRepeats(r, reply)
  \/ \E r \in wire : SpecialRefuses(r) \/ SpecialIsUnavailable(r)
  \/ SpecialLocksPeriod

Next ==
  \/ \E l \in Leaves : RecordPaperApproval(l) \/ VoidLeave(l)
  \/ Tick
  \/ \E c \in Calls :
       \/ \E cutoff \in Cutoffs : BeginPrepare(c, cutoff)
       \/ FindExisting(c)
       \/ ChooseVersion(c)
       \/ InsertBatch(c)
       \/ \E v \in Versions : BeginDeliver(c, v)
       \/ \E configured \in BOOLEAN : StartSending(c, configured)
       \/ RecordAcknowledgement(c)
       \/ RecordFailure(c)
       \/ AbandonCall(c)
  \/ \E v \in Versions : BackoffElapses(v)
  \/ SpecialNext

Spec == Init /\ [][Next]_vars
-----------------------------------------------------------------------------
(***************************************************************************)
(* What getBatch reports of a batch, compared with the stored answer of    *)
(* the latest delivery.                                                    *)
(***************************************************************************)
Reconciliation(v) ==
  LET a == LatestAttempt(v)
  IN  CASE a = 0 -> "NOT_SENT"
        [] a > 0 /\ batch[v].status \in {"DELIVERING", "RETRYABLE_FAILURE"} -> "PENDING"
        [] a > 0 /\ batch[v].status = "FAILED" -> "BLOCKED"
        [] OTHER -> IF delivery[v][a].status \in Acknowledged THEN "MATCHED" ELSE "MISMATCH"

(***************************************************************************)
(* Properties.                                                             *)
(***************************************************************************)

(* The types of the rows, of the calls and of Special's record.              *)
TypeOK ==
  /\ now \in Times
  /\ leaveStatus \in [Leaves -> {"SUBMITTED", "PAPER_APPROVED", "VOIDED"}]
  /\ effectiveAt \in [Leaves -> Times \cup {0}]
  /\ batch \in [Versions -> Batch \cup {NoBatch}]
  /\ delivery \in [Versions -> [Attempts -> Delivery \cup {NoDelivery}]]
  /\ call \in [Calls -> PrepareCall \cup DeliverCall \cup {Idle}]
  /\ wire \subseteq Request
  /\ open \in BOOLEAN
  /\ accepted \subseteq Versions

(* The deliveries of a batch are numbered without gap, and no two calls ever *)
(* send under the same number, although each computes its number from a read *)
(* made outside the transaction that inserts it.                             *)
AttemptsExact ==
  /\ \A v \in Versions, a \in Attempts :
       Opened(v, a) => Prepared(v) /\ \A b \in 1 .. a : Opened(v, b)
  /\ \A c \in Calls : Sending(c) =>
       /\ delivery[call[c].version][call[c].attempt].status = "SENDING"
       /\ \A d \in Calls \ {c} :
            Sending(d) => \/ call[d].version # call[c].version
                          \/ call[d].attempt # call[c].attempt

(* Whatever is lost, late, repeated or sent twice at once, Special applies a *)
(* batch at most once, so at most one delivery of it ends APPLIED, and an    *)
(* acknowledged delivery is always of a version that Special has applied.    *)
AppliedOnce ==
  \A v \in Versions :
    /\ Cardinality({a \in Attempts : Opened(v, a) /\ delivery[v][a].status = "APPLIED"}) <= 1
    /\ \A a \in Attempts :
         (Opened(v, a) /\ delivery[v][a].status \in Acknowledged) => v \in accepted

(* A batch's status is always the outcome of one of its deliveries: FAILED   *)
(* of one that may not be retried, RETRYABLE_FAILURE of one that may (the    *)
(* worker's query finds the batch through it), APPLIED and DUPLICATE of one  *)
(* that ended so; PREPARED has none.                                         *)
StatusExplained ==
  \A v \in Versions : Prepared(v) =>
    IF batch[v].status = "PREPARED"
    THEN LatestAttempt(v) = 0
    ELSE \E a \in Attempts :
           /\ Opened(v, a)
           /\ batch[v].status \in Acknowledged \cup {"FAILED", "RETRYABLE_FAILURE"} =>
                delivery[v][a].status =
                  IF batch[v].status \in Acknowledged THEN batch[v].status ELSE "FAILED"
           /\ batch[v].status \in {"FAILED", "RETRYABLE_FAILURE"} =>
                delivery[v][a].retryable = (batch[v].status = "RETRYABLE_FAILURE")

(* What the monitor reports is never better than the truth: MATCHED only for *)
(* a batch that Special has applied, NOT_SENT only for one it never saw.     *)
ReconciliationHonest ==
  \A v \in Versions : Prepared(v) =>
    /\ Reconciliation(v) = "MATCHED" => v \in accepted
    /\ Reconciliation(v) = "NOT_SENT" => v \notin accepted

(* The versions of the period form a ledger without gap, in which no content *)
(* occurs twice and nothing is rewritten; Special applies them in ascending  *)
(* order and One Data records no acknowledgement before that.                *)
Ledger == INSTANCE SnapshotLedger WITH
  contents <- [v \in 1 .. Cardinality({w \in Versions : Prepared(w)}) |-> batch[v].content],
  applied <- accepted,
  confirmed <- {v \in Versions : \E a \in Attempts :
                  Opened(v, a) /\ delivery[v][a].status \in Acknowledged}

RefinesLedger == Ledger!Spec

-----------------------------------------------------------------------------
(***************************************************************************)
(* What documents of the repository say, and the code does not keep.       *)
(***************************************************************************)
(* One sender at a time: repeating a delivery is safe, so a batch once       *)
(* acknowledged stays acknowledged.                                          *)
AcknowledgementStands ==
  [][\A v \in Versions :
       (Prepared(v) /\ batch[v].status \in Acknowledged) =>
         batch'[v].status \in Acknowledged]_vars
=============================================================================
