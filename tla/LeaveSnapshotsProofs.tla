-------------------------- MODULE LeaveSnapshotsProofs --------------------------
(***************************************************************************)
(* Theorems about LeaveSnapshots, for any leaves, calls, times, versions   *)
(* and attempts, and that it implements SnapshotLedger.                    *)
(*                                                                         *)
(* The invariant says what each call and each request on its way may rely  *)
(* on: the batch it names exists and the attempts before its own are       *)
(* taken, for ever (CallsGrounded, RequestsGrounded); and it counts an     *)
(* application by Special once, be it on record already or still on its    *)
(* way back to the call that posted (MarksHold).                           *)
(***************************************************************************)
EXTENDS LeaveSnapshots, FiniteSetTheorems, WellFoundedInduction, SequenceTheorems, TLAPS

(* A call has read what only grows: versions below its own stay prepared,    *)
(* attempts below its own stay taken.                                        *)
Grounded(k) ==
  IF k.op = "prepare"
  THEN \A w \in Versions : w < k.version => Prepared(w)
  ELSE /\ Prepared(k.version)
       /\ \A b \in Attempts : b < k.attempt => Opened(k.version, b)
       /\ k.op = "send" => Opened(k.version, k.attempt)

CallsGrounded == \A c \in Calls : call[c] # Idle => Grounded(call[c])

RequestsGrounded ==
  /\ \A r \in wire : Opened(r.version, r.attempt)
  /\ \A v \in accepted : \E a \in Attempts : Opened(v, a)

VersionsGapless ==
  \A v, w \in Versions : w < v /\ Prepared(v) => Prepared(w)

(* Attempt a carries the news that Special applied the version.              *)
Marked(v, a) ==
  \/ Opened(v, a) /\ delivery[v][a].status = "APPLIED"
  \/ \E c \in Calls : /\ Sending(c) /\ call[c].reply = "applied"
                      /\ call[c].version = v /\ call[c].attempt = a

MarksHold ==
  /\ \A v \in Versions : \A a, b \in Attempts : Marked(v, a) /\ Marked(v, b) => a = b
  /\ \A v \in Versions, a \in Attempts :
       Opened(v, a) /\ delivery[v][a].status \in Acknowledged => v \in accepted
  /\ \A c \in Calls :
       Sending(c) /\ call[c].reply \in {"applied", "duplicate"} => call[c].version \in accepted

SnapshotInv ==
  /\ TypeOK /\ AttemptsExact /\ StatusExplained
  /\ CallsGrounded /\ RequestsGrounded /\ VersionsGapless /\ MarksHold

(***************************************************************************)
(* The highest version and the latest attempt.                             *)
(***************************************************************************)
LEMMA HighestExists ==
  ASSUME NEW n \in Nat, NEW S \in SUBSET (1 .. n), S # {}
  PROVE  \E m \in S : \A x \in S : x <= m
<1> DEFINE T == {n - x : x \in S}
<1>1. T \subseteq Nat /\ T # {}
  <2>1. \A x \in S : n - x \in T /\ n - x \in Nat
    OBVIOUS
  <2>2. PICK x \in S : TRUE
    OBVIOUS
  <2> QED BY <2>1, <2>2
<1>2. PICK t \in T : \A u \in T : ~(<< u, t >> \in OpToRel(<, Nat))
  <2> HIDE DEF T
  <2> QED BY <1>1, NatLessThanWellFounded, WFMin
<1>3. PICK m \in S : t = n - m
  OBVIOUS
<1>4. ASSUME NEW x \in S PROVE x <= m
  <2>1. n - x \in T /\ n - x \in Nat /\ t \in Nat
    BY <1>1
  <2>2. ~(n - x < t)
    BY <1>2, <2>1 DEF OpToRel
  <2> QED BY <1>3, <2>2
<1> QED BY <1>4

LEMMA LatestAttemptIs ==
  ASSUME TypeOK, NEW v \in Versions
  PROVE  /\ LatestAttempt(v) \in 0 .. MaxAttempts
         /\ LatestAttempt(v) = 0 <=> \A a \in Attempts : ~Opened(v, a)
         /\ LatestAttempt(v) > 0 => LatestAttempt(v) \in Attempts /\ Opened(v, LatestAttempt(v))
         /\ \A b \in Attempts : Opened(v, b) => b <= LatestAttempt(v)
<1> DEFINE S == {a \in Attempts : Opened(v, a)}
<1>1. MaxAttempts \in Nat /\ S \in SUBSET (1 .. MaxAttempts)
  BY SnapshotAssumption DEF Attempts
<1>2. CASE S = {}
  <2>1. LatestAttempt(v) = 0
    BY <1>2 DEF LatestAttempt
  <2> QED BY <1>1, <1>2, <2>1
<1>3. CASE S # {}
  <2>1. \E m \in S : \A x \in S : x <= m
    <3> HIDE DEF S
    <3> QED BY <1>1, <1>3, HighestExists
  <2>2. LatestAttempt(v) = CHOOSE a \in Attempts : Opened(v, a) /\ \A b \in Attempts : Opened(v, b) => b <= a
    BY <1>3 DEF LatestAttempt
  <2>3. /\ LatestAttempt(v) \in Attempts /\ Opened(v, LatestAttempt(v))
        /\ \A b \in Attempts : Opened(v, b) => b <= LatestAttempt(v)
    BY <2>1, <2>2
  <2> QED BY <1>1, <2>3 DEF Attempts
<1> QED BY <1>2, <1>3

LEMMA LatestVersionIs ==
  /\ LatestVersion \in 0 .. MaxVersion
  /\ \A w \in Versions : Prepared(w) => w <= LatestVersion
  /\ LatestVersion > 0 => LatestVersion \in Versions /\ Prepared(LatestVersion)
<1> DEFINE S == {v \in Versions : Prepared(v)}
<1>1. MaxVersion \in Nat /\ S \in SUBSET (1 .. MaxVersion)
  BY SnapshotAssumption DEF Versions
<1>2. CASE S = {}
  <2>1. LatestVersion = 0
    BY <1>2 DEF LatestVersion
  <2> QED BY <1>1, <1>2, <2>1
<1>3. CASE S # {}
  <2>1. \E m \in S : \A x \in S : x <= m
    <3> HIDE DEF S
    <3> QED BY <1>1, <1>3, HighestExists
  <2>2. LatestVersion = CHOOSE v \in Versions : Prepared(v) /\ \A w \in Versions : Prepared(w) => w <= v
    BY <1>3 DEF LatestVersion
  <2>3. /\ LatestVersion \in Versions /\ Prepared(LatestVersion)
        /\ \A w \in Versions : Prepared(w) => w <= LatestVersion
    BY <2>1, <2>2
  <2> QED BY <1>1, <2>3 DEF Versions
<1> QED BY <1>2, <1>3

(***************************************************************************)
(* The invariant.                                                          *)
(***************************************************************************)
LEMMA InitInv == Init => SnapshotInv
<1> SUFFICES ASSUME Init PROVE SnapshotInv
  OBVIOUS
<1>1. /\ \A v \in Versions : ~Prepared(v)
      /\ \A v \in Versions, a \in Attempts : ~Opened(v, a)
      /\ \A c \in Calls : call[c] = Idle
  BY DEF Init, Prepared, Opened
<1>2. TypeOK
  BY SnapshotAssumption DEF Init, TypeOK, Times
<1>3. AttemptsExact /\ StatusExplained
  BY <1>1 DEF AttemptsExact, StatusExplained, Sending
<1>4. CallsGrounded /\ RequestsGrounded /\ VersionsGapless
  BY <1>1 DEF Init, CallsGrounded, RequestsGrounded, VersionsGapless
<1>5. MarksHold
  BY <1>1 DEF MarksHold, Marked, Sending
<1> QED BY <1>2, <1>3, <1>4, <1>5 DEF SnapshotInv

(* Steps of a call that change nothing but what the call knows.              *)
LEMMA CallInv ==
  ASSUME SnapshotInv, NEW c \in Calls, NEW j \in PrepareCall \cup DeliverCall \cup {Idle},
         j # Idle => j.op # "send" /\ Grounded(j),
         call' = [call EXCEPT ![c] = j],
         UNCHANGED << sourceVars, tableVars, wire, specialVars >>
  PROVE  SnapshotInv'
<1> USE DEF SnapshotInv
<1>0. UNCHANGED << now, leaveStatus, effectiveAt, batch, delivery, wire, open, accepted >>
  BY DEF sourceVars, tableVars, specialVars
<1>1. TypeOK'
  BY <1>0 DEF TypeOK
<1>2. /\ \A d \in Calls : Sending(d)' => d # c /\ Sending(d) /\ call'[d] = call[d]
      /\ \A v \in Versions : Prepared(v)' <=> Prepared(v)
      /\ \A v \in Versions, a \in Attempts : Opened(v, a)' <=> Opened(v, a)
      /\ \A v \in Versions : LatestAttempt(v)' = LatestAttempt(v)
  BY <1>0 DEF Sending, Prepared, Opened, LatestAttempt, TypeOK
<1>3. AttemptsExact'
  <2>1. \A a \in Attempts : 1 .. a \subseteq Attempts
    BY SnapshotAssumption DEF Attempts
  <2> QED BY <1>0, <1>2, <2>1 DEF AttemptsExact
<1>4. StatusExplained'
  BY <1>0, <1>2 DEF StatusExplained
<1>5. CallsGrounded'
  BY <1>0, <1>2 DEF CallsGrounded, Grounded, TypeOK, Prepared, Opened
<1>6. RequestsGrounded' /\ VersionsGapless'
  BY <1>0 DEF RequestsGrounded, VersionsGapless, Prepared, Opened
<1>7. MarksHold'
  <2>1. \A v \in Versions, a \in Attempts : Marked(v, a)' => Marked(v, a)
    BY <1>0, <1>2 DEF Marked
  <2> QED BY <1>0, <1>2, <2>1 DEF MarksHold
<1> QED BY <1>1, <1>3, <1>4, <1>5, <1>6, <1>7

(* The leaves, the clock and the period's lock: no row depends on them.      *)
LEMMA SourceInv ==
  ASSUME SnapshotInv,
         UNCHANGED << tableVars, call, wire, accepted >>,
         (now \in Times /\ leaveStatus \in [Leaves -> {"SUBMITTED", "PAPER_APPROVED", "VOIDED"}]
            /\ effectiveAt \in [Leaves -> Times \cup {0}] /\ open \in BOOLEAN)'
  PROVE  SnapshotInv'
<1> USE DEF SnapshotInv
<1>0. UNCHANGED << batch, delivery, call, wire, accepted >>
  BY DEF tableVars
<1>1. TypeOK'
  BY <1>0 DEF TypeOK
<1>2. AttemptsExact'
  BY <1>0 DEF AttemptsExact, Opened, Prepared, Sending
<1>3. StatusExplained'
  BY <1>0 DEF StatusExplained, Opened, Prepared, LatestAttempt
<1>4. CallsGrounded' /\ RequestsGrounded' /\ VersionsGapless'
  BY <1>0 DEF CallsGrounded, Grounded, RequestsGrounded, VersionsGapless, Opened, Prepared
<1>5. MarksHold'
  BY <1>0 DEF MarksHold, Marked, Opened, Sending
<1> QED BY <1>1, <1>2, <1>3, <1>4, <1>5

LEMMA ChooseVersionInv ==
  ASSUME SnapshotInv, NEW c \in Calls, ChooseVersion(c)
  PROVE  SnapshotInv'
<1>1. call[c] \in PrepareCall
  BY DEF SnapshotInv, TypeOK, ChooseVersion, Preparing, DeliverCall
<1>2. LatestVersion + 1 \in 0 .. MaxVersion + 1
  BY LatestVersionIs, SnapshotAssumption
<1>3. PICK j \in PrepareCall :
        j.version = LatestVersion + 1 /\ call' = [call EXCEPT ![c] = j]
  BY <1>1, <1>2 DEF ChooseVersion, PrepareCall
<1>4. Grounded(j)
  <2>1. ASSUME NEW w \in Versions, w < LatestVersion + 1 PROVE Prepared(w)
    <3>1. w \in Int /\ w > 0 /\ w <= LatestVersion
      BY <2>1, LatestVersionIs, SnapshotAssumption DEF Versions
    <3>2. LatestVersion \in Versions /\ Prepared(LatestVersion)
      BY <3>1, LatestVersionIs
    <3>3. LatestVersion = w \/ w < LatestVersion
      BY <3>1, LatestVersionIs
    <3> QED BY <3>2, <3>3 DEF SnapshotInv, VersionsGapless
  <2>2. j.op = "prepare"
    BY DEF PrepareCall
  <2> QED BY <1>3, <2>1, <2>2 DEF Grounded
<1>5. j \in PrepareCall \cup DeliverCall \cup {Idle} /\ j.op # "send"
  BY DEF PrepareCall
<1> QED BY <1>3, <1>4, <1>5, CallInv DEF ChooseVersion

LEMMA BeginDeliverInv ==
  ASSUME SnapshotInv, NEW c \in Calls, NEW v \in Versions, BeginDeliver(c, v)
  PROVE  SnapshotInv'
<1>1. LatestAttempt(v) + 1 \in Attempts
  BY LatestAttemptIs, SnapshotAssumption DEF SnapshotInv, BeginDeliver, Attempts
<1>2. PICK j \in DeliverCall :
        /\ j.op = "deliver" /\ j.version = v /\ j.attempt = LatestAttempt(v) + 1
        /\ call' = [call EXCEPT ![c] = j]
  BY <1>1 DEF BeginDeliver, DeliverCall, Replies
<1>3. ASSUME NEW b \in Attempts, b < LatestAttempt(v) + 1 PROVE Opened(v, b)
  <2>1. b \in Int /\ b > 0 /\ b <= LatestAttempt(v)
    BY <1>3, LatestAttemptIs, SnapshotAssumption DEF SnapshotInv, Attempts
  <2>2. Opened(v, LatestAttempt(v)) /\ LatestAttempt(v) \in Attempts /\ b \in 1 .. LatestAttempt(v)
    BY <2>1, LatestAttemptIs DEF SnapshotInv
  <2> QED BY <2>2 DEF SnapshotInv, AttemptsExact
<1>4. Grounded(j)
  BY <1>2, <1>3 DEF Grounded, BeginDeliver
<1> QED BY <1>2, <1>4, CallInv DEF BeginDeliver

LEMMA InsertBatchInv ==
  ASSUME SnapshotInv, NEW c \in Calls, InsertBatch(c)
  PROVE  SnapshotInv'
<1> USE DEF SnapshotInv
<1>0. UNCHANGED << now, leaveStatus, effectiveAt, delivery, wire, open, accepted >>
  BY DEF InsertBatch, sourceVars, specialVars
<1>1. call[c] \in PrepareCall
  BY DEF TypeOK, InsertBatch, Preparing, DeliverCall
<1>2. PICK x \in Versions, row \in Batch :
        /\ x = call[c].version /\ row.status = "PREPARED" /\ row # NoBatch
        /\ ~Prepared(x)
        /\ batch' = [batch EXCEPT ![x] = row] /\ call' = [call EXCEPT ![c] = Idle]
  <2>1. PICK row \in Batch : row = [content |-> call[c].content, status |-> "PREPARED"]
    BY <1>1 DEF Batch, BatchStatuses, PrepareCall
  <2>2. row # NoBatch /\ row.status = "PREPARED"
    BY <2>1, SnapshotAssumption
  <2> QED BY <2>1, <2>2 DEF InsertBatch
<1>3. TypeOK'
  BY <1>0, <1>2 DEF TypeOK
<1>4. /\ \A d \in Calls : Sending(d)' => d # c /\ Sending(d) /\ call'[d] = call[d]
      /\ \A v \in Versions : Prepared(v)' <=> Prepared(v) \/ v = x
      /\ \A v \in Versions : v # x => batch'[v] = batch[v]
      /\ batch'[x].status = "PREPARED"
      /\ \A v \in Versions, a \in Attempts : Opened(v, a)' <=> Opened(v, a)
      /\ \A v \in Versions : LatestAttempt(v)' = LatestAttempt(v)
  BY <1>0, <1>2 DEF Sending, Prepared, Opened, LatestAttempt, TypeOK
<1>5. AttemptsExact'
  <2>1. \A a \in Attempts : 1 .. a \subseteq Attempts
    BY SnapshotAssumption DEF Attempts
  <2> QED BY <1>0, <1>4, <2>1 DEF AttemptsExact
<1>6. StatusExplained'
  <2>1. LatestAttempt(x) = 0
    BY <1>2, LatestAttemptIs DEF AttemptsExact
  <2> QED BY <1>0, <1>4, <2>1 DEF StatusExplained
<1>7. CallsGrounded'
  <2> SUFFICES ASSUME NEW d \in Calls, call'[d] # Idle PROVE Grounded(call[d])' 
    BY DEF CallsGrounded
  <2>1. call'[d] = call[d] /\ Grounded(call[d])
    BY <1>2 DEF TypeOK, CallsGrounded
  <2>2. call[d] \in PrepareCall \cup DeliverCall
    BY <2>1 DEF TypeOK
  <2>3. call[d].op # "prepare" => call[d].version \in Versions /\ call[d].attempt \in Attempts
    BY <2>2 DEF PrepareCall, DeliverCall
  <2> QED BY <1>4, <2>1, <2>3 DEF Grounded
<1>8. RequestsGrounded'
  BY <1>0 DEF RequestsGrounded, Opened
<1>9. VersionsGapless'
  <2>1. \A w \in Versions : w < x => Prepared(w)
    BY <1>1, <1>2 DEF CallsGrounded, Grounded, PrepareCall, InsertBatch, Preparing
  <2>2. x \in Int /\ \A v \in Versions : v \in Int
    BY SnapshotAssumption DEF Versions
  <2> QED BY <1>4, <2>1, <2>2 DEF VersionsGapless
<1>10. MarksHold'
  <2>1. \A v \in Versions, a \in Attempts : Marked(v, a)' => Marked(v, a)
    BY <1>0, <1>4 DEF Marked
  <2> QED BY <1>0, <1>4, <2>1 DEF MarksHold
<1> QED BY <1>3, <1>5, <1>6, <1>7, <1>8, <1>9, <1>10

LEMMA AttemptsBelow == \A a \in Attempts : 1 .. a \subseteq Attempts
  BY SnapshotAssumption DEF Attempts

(* A status changes the row of its batch only.                               *)
LEMMA SetStatusIs ==
  ASSUME TypeOK, NEW v \in Versions, Prepared(v), NEW s \in BatchStatuses, SetStatus(v, s)
  PROVE  /\ batch' \in [Versions -> Batch \cup {NoBatch}]
         /\ \A w \in Versions : w # v => batch'[w] = batch[w]
         /\ batch'[v].status = s /\ batch'[v].content = batch[v].content
         /\ \A w \in Versions : Prepared(w)' <=> Prepared(w)
<1>1. batch[v] \in Batch
  BY DEF TypeOK, Prepared
<1>2. PICK row \in Batch :
        row.status = s /\ row.content = batch[v].content /\ batch' = [batch EXCEPT ![v] = row]
  BY <1>1 DEF SetStatus, Batch
<1>3. row # NoBatch
  BY SnapshotAssumption
<1> QED BY <1>2, <1>3 DEF TypeOK, Prepared

(* A delivery row is written: the others, and the batches, stay.             *)
LEMMA StoreDeliveryIs ==
  ASSUME TypeOK, NEW v \in Versions, NEW a \in Attempts, NEW row \in Delivery,
         delivery' = [delivery EXCEPT ![v][a] = row]
  PROVE  /\ delivery' \in [Versions -> [Attempts -> Delivery \cup {NoDelivery}]]
         /\ delivery'[v][a] = row
         /\ \A w \in Versions, b \in Attempts :
              w # v \/ b # a => delivery'[w][b] = delivery[w][b]
         /\ \A w \in Versions, b \in Attempts :
              Opened(w, b)' <=> Opened(w, b) \/ (w = v /\ b = a)
<1>1. row # NoDelivery
  BY SnapshotAssumption
<1> QED BY <1>1 DEF TypeOK, Opened

LEMMA StartSendingInv ==
  ASSUME SnapshotInv, NEW c \in Calls, NEW configured \in BOOLEAN, StartSending(c, configured)
  PROVE  SnapshotInv'
<1> USE DEF SnapshotInv
<1>0. UNCHANGED << now, leaveStatus, effectiveAt, open, accepted >>
  BY DEF StartSending, sourceVars, specialVars
<1>1. call[c] \in DeliverCall /\ call[c].op = "deliver"
  BY DEF TypeOK, StartSending, PrepareCall
<1>2. PICK v \in Versions, a \in Attempts, row \in Delivery, j \in DeliverCall :
        /\ v = call[c].version /\ a = call[c].attempt
        /\ row.status = "SENDING"
        /\ j.op = "send" /\ j.version = v /\ j.attempt = a /\ j.reply \in {"none", "final"}
        /\ ~Opened(v, a)
        /\ delivery' = [delivery EXCEPT ![v][a] = row]
        /\ SetStatus(v, "DELIVERING")
        /\ call' = [call EXCEPT ![c] = j]
        /\ wire' = wire \/ wire' = wire \cup {[version |-> v, attempt |-> a]}
  <2>1. PICK row \in Delivery : row = [status |-> "SENDING", retryable |-> FALSE, waiting |-> FALSE]
    BY DEF Delivery
  <2>2. PICK j \in DeliverCall :
          /\ j.op = "send" /\ j.version = call[c].version /\ j.attempt = call[c].attempt
          /\ j.reply \in {"none", "final"} /\ call' = [call EXCEPT ![c] = j]
    <3> DEFINE reply == IF configured THEN "none" ELSE "final"
               j == [call[c] EXCEPT !.op = "send", !.reply = reply]
    <3>1. reply \in {"none", "final"}
      OBVIOUS
    <3>2. call' = [call EXCEPT ![c] = j]
      BY <1>1 DEF StartSending, TypeOK
    <3> HIDE DEF reply
    <3>3. /\ j \in DeliverCall /\ j.op = "send" /\ j.reply = reply
          /\ j.version = call[c].version /\ j.attempt = call[c].attempt
      BY <1>1, <3>1 DEF DeliverCall, Replies
    <3> QED BY <3>1, <3>2, <3>3
  <2>3. /\ call[c].version \in Versions /\ call[c].attempt \in Attempts
        /\ SetStatus(call[c].version, "DELIVERING")
        /\ ~Opened(call[c].version, call[c].attempt)
        /\ delivery' = [delivery EXCEPT ![call[c].version][call[c].attempt] = row]
    BY <1>1, <2>1 DEF StartSending, DeliverCall
  <2>4. \/ wire' = wire
        \/ wire' = wire \cup {[version |-> call[c].version, attempt |-> call[c].attempt]}
    BY DEF StartSending
  <2> QED BY <2>1, <2>2, <2>3, <2>4
<1>3. /\ Grounded(call[c]) /\ Prepared(v)
      /\ \A b \in Attempts : b < a => Opened(v, b)
  BY <1>1, <1>2, SnapshotAssumption DEF CallsGrounded, Grounded, StartSending
<1>4. /\ batch' \in [Versions -> Batch \cup {NoBatch}]
      /\ \A w \in Versions : w # v => batch'[w] = batch[w]
      /\ batch'[v].status = "DELIVERING"
      /\ \A w \in Versions : Prepared(w)' <=> Prepared(w)
  BY <1>2, <1>3, SetStatusIs DEF BatchStatuses
<1>5. /\ delivery' \in [Versions -> [Attempts -> Delivery \cup {NoDelivery}]]
      /\ delivery'[v][a].status = "SENDING"
      /\ \A w \in Versions, b \in Attempts :
           w # v \/ b # a => delivery'[w][b] = delivery[w][b]
      /\ \A w \in Versions, b \in Attempts :
           Opened(w, b)' <=> Opened(w, b) \/ (w = v /\ b = a)
  BY <1>2, StoreDeliveryIs
<1>6. /\ Sending(c)' /\ call'[c] = j /\ j # Idle
      /\ \A d \in Calls \ {c} : call'[d] = call[d]
      /\ \A d \in Calls \ {c} : Sending(d)' <=> Sending(d)
  <2>1. j # Idle
    BY SnapshotAssumption
  <2> QED BY <1>2, <2>1 DEF TypeOK, Sending
<1>7. \A d \in Calls : Sending(d) =>
        /\ call[d].version \in Versions /\ call[d].attempt \in Attempts
        /\ Opened(call[d].version, call[d].attempt)
        /\ call[d].version # v \/ call[d].attempt # a
  <2> SUFFICES ASSUME NEW d \in Calls, Sending(d)
               PROVE  /\ call[d].version \in Versions /\ call[d].attempt \in Attempts
                      /\ Opened(call[d].version, call[d].attempt)
    BY <1>2
  <2>1. call[d] \in DeliverCall
    BY DEF TypeOK, Sending, PrepareCall
  <2> QED BY <2>1 DEF DeliverCall, Sending, CallsGrounded, Grounded
<1>8. TypeOK'
  <2>1. wire' \subseteq Request
    BY <1>2 DEF TypeOK, Request
  <2> QED BY <1>0, <1>2, <1>4, <1>5, <2>1 DEF TypeOK
<1>9. AttemptsExact'
  <2>1. ASSUME NEW w \in Versions, NEW e \in Attempts, Opened(w, e)', NEW b \in 1 .. e
        PROVE  Opened(w, b)' /\ Prepared(w)'
    <3>1. b \in Attempts
      BY AttemptsBelow
    <3>2. CASE w = v /\ e = a
      <4>1. b = a \/ b < a
        BY <3>1, <3>2, SnapshotAssumption DEF Attempts
      <4> QED BY <1>3, <1>4, <1>5, <3>1, <3>2, <4>1
    <3>3. CASE ~(w = v /\ e = a)
      BY <1>4, <1>5, <2>1, <3>1, <3>3 DEF AttemptsExact
    <3> QED BY <3>2, <3>3
  <2>2. \A w \in Versions, e \in Attempts : Opened(w, e)' => Prepared(w)'
    <3> SUFFICES ASSUME NEW w \in Versions, NEW e \in Attempts, Opened(w, e)' PROVE Prepared(w)'
      OBVIOUS
    <3>1. e \in 1 .. e
      BY SnapshotAssumption DEF Attempts
    <3> QED BY <2>1, <3>1
  <2>3. ASSUME NEW d \in Calls, Sending(d)'
        PROVE  /\ delivery'[call'[d].version][call'[d].attempt].status = "SENDING"
               /\ \A o \in Calls \ {d} :
                    Sending(o)' => \/ call'[o].version # call'[d].version
                                   \/ call'[o].attempt # call'[d].attempt
    <3>1. CASE d = c
      BY <1>2, <1>5, <1>6, <1>7, <3>1
    <3>2. CASE d # c
      BY <1>2, <1>5, <1>6, <1>7, <2>3, <3>2 DEF AttemptsExact
    <3> QED BY <3>1, <3>2
  <2> QED BY <2>1, <2>2, <2>3 DEF AttemptsExact
<1>10. StatusExplained'
  <2> SUFFICES ASSUME NEW w \in Versions, Prepared(w)'
               PROVE  IF batch'[w].status = "PREPARED"
                      THEN LatestAttempt(w)' = 0
                      ELSE \E e \in Attempts :
                        /\ Opened(w, e)'
                        /\ batch'[w].status \in Acknowledged \cup {"FAILED", "RETRYABLE_FAILURE"} =>
                             delivery'[w][e].status =
                               IF batch'[w].status \in Acknowledged THEN batch'[w].status ELSE "FAILED"
                        /\ batch'[w].status \in {"FAILED", "RETRYABLE_FAILURE"} =>
                             delivery'[w][e].retryable = (batch'[w].status = "RETRYABLE_FAILURE")
    BY DEF StatusExplained
  <2>1. CASE w = v
    BY <1>4, <1>5, <2>1 DEF Acknowledged
  <2>2. CASE w # v
    <3>1. \A e \in Attempts : (Opened(w, e)' <=> Opened(w, e)) /\ delivery'[w][e] = delivery[w][e]
      BY <1>5, <2>2
    <3>2. LatestAttempt(w) = 0 => LatestAttempt(w)' = 0
      BY <3>1, LatestAttemptIs DEF LatestAttempt
    <3> QED BY <1>4, <2>2, <3>1, <3>2 DEF StatusExplained
  <2> QED BY <2>1, <2>2
<1>11. CallsGrounded'
  <2> SUFFICES ASSUME NEW d \in Calls, call'[d] # Idle PROVE Grounded(call[d])'
    BY DEF CallsGrounded
  <2>1. CASE d = c
    BY <1>2, <1>3, <1>4, <1>5, <1>6, <2>1 DEF Grounded
  <2>2. CASE d # c
    <3>1. call'[d] = call[d] /\ Grounded(call[d]) /\ call[d] \in PrepareCall \cup DeliverCall
      BY <1>6, <2>2 DEF TypeOK, CallsGrounded
    <3>2. call[d].op # "prepare" => call[d].version \in Versions /\ call[d].attempt \in Attempts
      BY <3>1 DEF PrepareCall, DeliverCall
    <3> QED BY <1>4, <1>5, <3>1, <3>2 DEF Grounded
  <2> QED BY <2>1, <2>2
<1>12. RequestsGrounded'
  <2>1. \A r \in wire : r.version \in Versions /\ r.attempt \in Attempts
    BY DEF TypeOK, Request
  <2>2. accepted \subseteq Versions
    BY DEF TypeOK
  <2> QED BY <1>0, <1>2, <1>5, <2>1, <2>2 DEF RequestsGrounded
<1>13. VersionsGapless'
  BY <1>4 DEF VersionsGapless
<1>14. MarksHold'
  <2>1. \A w \in Versions, b \in Attempts : Marked(w, b)' => Marked(w, b)
    BY <1>2, <1>5, <1>6 DEF Marked
  <2> QED BY <1>0, <1>2, <1>5, <1>6, <2>1 DEF MarksHold, Acknowledged
<1> QED BY <1>8, <1>9, <1>10, <1>11, <1>12, <1>13, <1>14

(* What is known of a call that is sending.                                  *)
LEMMA SendingIs ==
  ASSUME SnapshotInv, NEW c \in Calls, Sending(c)
  PROVE  /\ call[c] \in DeliverCall /\ call[c].version \in Versions /\ call[c].attempt \in Attempts
         /\ Prepared(call[c].version) /\ Opened(call[c].version, call[c].attempt)
         /\ delivery[call[c].version][call[c].attempt].status = "SENDING"
<1>1. call[c] \in DeliverCall
  BY DEF SnapshotInv, TypeOK, Sending, PrepareCall
<1>2. Grounded(call[c]) /\ call[c].op = "send"
  BY DEF SnapshotInv, CallsGrounded, Sending
<1> QED BY <1>1, <1>2 DEF SnapshotInv, AttemptsExact, DeliverCall, Grounded

(* The second transaction, for a row and a status that explain each other.   *)
LEMMA SettleInv ==
  ASSUME SnapshotInv, NEW c \in Calls, Sending(c), NEW row \in Delivery, NEW s \in BatchStatuses,
         Settle(c, row, s),
         \/ s \in Acknowledged /\ row.status = s
         \/ /\ s \in {"FAILED", "RETRYABLE_FAILURE"} /\ row.status = "FAILED"
            /\ row.retryable = (s = "RETRYABLE_FAILURE"),
         row.status = "APPLIED" => call[c].reply = "applied",
         row.status \in Acknowledged => call[c].reply \in {"applied", "duplicate"}
  PROVE  SnapshotInv'
<1> USE DEF SnapshotInv
<1>0. UNCHANGED << now, leaveStatus, effectiveAt, wire, open, accepted >>
  BY DEF Settle, sourceVars, specialVars
<1>1. PICK v \in Versions, a \in Attempts :
        /\ v = call[c].version /\ a = call[c].attempt
        /\ delivery' = [delivery EXCEPT ![v][a] = row]
        /\ SetStatus(v, s)
        /\ call' = [call EXCEPT ![c] = Idle]
        /\ Prepared(v) /\ Opened(v, a) /\ delivery[v][a].status = "SENDING"
  BY SendingIs DEF Settle
<1>2. /\ batch' \in [Versions -> Batch \cup {NoBatch}]
      /\ \A w \in Versions : w # v => batch'[w] = batch[w]
      /\ batch'[v].status = s
      /\ \A w \in Versions : Prepared(w)' <=> Prepared(w)
  BY <1>1, SetStatusIs
<1>3. /\ delivery' \in [Versions -> [Attempts -> Delivery \cup {NoDelivery}]]
      /\ delivery'[v][a] = row
      /\ \A w \in Versions, b \in Attempts :
           w # v \/ b # a => delivery'[w][b] = delivery[w][b]
      /\ \A w \in Versions, b \in Attempts : Opened(w, b)' <=> Opened(w, b)
  <2>0. TypeOK /\ delivery' = [delivery EXCEPT ![v][a] = row]
    BY <1>1
  <2>1. /\ delivery' \in [Versions -> [Attempts -> Delivery \cup {NoDelivery}]]
        /\ delivery'[v][a] = row
        /\ \A w \in Versions, b \in Attempts :
             w # v \/ b # a => delivery'[w][b] = delivery[w][b]
        /\ \A w \in Versions, b \in Attempts :
             Opened(w, b)' <=> Opened(w, b) \/ (w = v /\ b = a)
    BY <2>0, StoreDeliveryIs, Zenon
  <2> QED BY <1>1, <2>1
<1>4. /\ call'[c] = Idle /\ \A d \in Calls \ {c} : call'[d] = call[d]
      /\ \A d \in Calls : Sending(d)' => d # c /\ Sending(d) /\ call'[d] = call[d]
  BY <1>1 DEF TypeOK, Sending
<1>5. \A d \in Calls \ {c} : Sending(d) =>
        /\ call[d].version \in Versions /\ call[d].attempt \in Attempts
        /\ call[d].version # v \/ call[d].attempt # a
  BY <1>1, SendingIs DEF AttemptsExact
<1>6. TypeOK'
  BY <1>0, <1>1, <1>2, <1>3 DEF TypeOK
<1>7. AttemptsExact'
  <2>1. \A w \in Versions, e \in Attempts : \A b \in 1 .. e :
          Opened(w, e)' => Prepared(w)' /\ Opened(w, b)'
    BY <1>2, <1>3, AttemptsBelow DEF AttemptsExact
  <2>2. \A w \in Versions, e \in Attempts : Opened(w, e)' => Prepared(w)'
    BY <1>2, <1>3 DEF AttemptsExact
  <2>3. ASSUME NEW d \in Calls, Sending(d)'
        PROVE  /\ delivery'[call'[d].version][call'[d].attempt].status = "SENDING"
               /\ \A o \in Calls \ {d} :
                    Sending(o)' => \/ call'[o].version # call'[d].version
                                   \/ call'[o].attempt # call'[d].attempt
    BY <1>3, <1>4, <1>5, <2>3 DEF AttemptsExact
  <2> QED BY <2>1, <2>2, <2>3 DEF AttemptsExact
<1>8. StatusExplained'
  <2> SUFFICES ASSUME NEW w \in Versions, Prepared(w)'
               PROVE  IF batch'[w].status = "PREPARED"
                      THEN LatestAttempt(w)' = 0
                      ELSE \E e \in Attempts :
                        /\ Opened(w, e)'
                        /\ batch'[w].status \in Acknowledged \cup {"FAILED", "RETRYABLE_FAILURE"} =>
                             delivery'[w][e].status =
                               IF batch'[w].status \in Acknowledged THEN batch'[w].status ELSE "FAILED"
                        /\ batch'[w].status \in {"FAILED", "RETRYABLE_FAILURE"} =>
                             delivery'[w][e].retryable = (batch'[w].status = "RETRYABLE_FAILURE")
    BY DEF StatusExplained
  <2>1. CASE w = v
    BY <1>1, <1>2, <1>3, <2>1 DEF Acknowledged
  <2>2. CASE w # v
    <3>1. \A e \in Attempts : (Opened(w, e)' <=> Opened(w, e)) /\ delivery'[w][e] = delivery[w][e]
      BY <1>3, <2>2
    <3>2. LatestAttempt(w) = 0 => LatestAttempt(w)' = 0
      BY <3>1, LatestAttemptIs DEF LatestAttempt
    <3> QED BY <1>2, <2>2, <3>1, <3>2 DEF StatusExplained
  <2> QED BY <2>1, <2>2
<1>9. CallsGrounded'
  <2> SUFFICES ASSUME NEW d \in Calls, call'[d] # Idle PROVE Grounded(call[d])'
    BY DEF CallsGrounded
  <2>1. call'[d] = call[d] /\ Grounded(call[d]) /\ call[d] \in PrepareCall \cup DeliverCall
    BY <1>4 DEF TypeOK, CallsGrounded
  <2>2. call[d].op # "prepare" => call[d].version \in Versions /\ call[d].attempt \in Attempts
    BY <2>1 DEF PrepareCall, DeliverCall
  <2> QED BY <1>2, <1>3, <2>1, <2>2 DEF Grounded
<1>10. RequestsGrounded'
  <2>1. \A r \in wire : r.version \in Versions /\ r.attempt \in Attempts
    BY DEF TypeOK, Request
  <2>2. accepted \subseteq Versions
    BY DEF TypeOK
  <2> QED BY <1>0, <1>3, <2>1, <2>2 DEF RequestsGrounded
<1>11. VersionsGapless'
  BY <1>2 DEF VersionsGapless
<1>12. MarksHold'
  <2>1. \A w \in Versions, b \in Attempts : Marked(w, b)' => Marked(w, b)
    <3> SUFFICES ASSUME NEW w \in Versions, NEW b \in Attempts, Marked(w, b)' PROVE Marked(w, b)
      OBVIOUS
    <3>1. CASE w = v /\ b = a /\ row.status = "APPLIED"
      BY <1>1, <3>1 DEF Marked
    <3>2. CASE ~(w = v /\ b = a /\ row.status = "APPLIED")
      BY <1>3, <1>4, <3>2 DEF Marked
    <3> QED BY <3>1, <3>2
  <2>2. row.status \in Acknowledged => v \in accepted
    BY <1>1 DEF MarksHold
  <2> QED BY <1>0, <1>1, <1>3, <1>4, <2>1, <2>2 DEF MarksHold
<1> QED BY <1>6, <1>7, <1>8, <1>9, <1>10, <1>11, <1>12

LEMMA RecordAcknowledgementInv ==
  ASSUME SnapshotInv, NEW c \in Calls, RecordAcknowledgement(c)
  PROVE  SnapshotInv'
<1> DEFINE s == IF call[c].reply = "duplicate" THEN "DUPLICATE" ELSE "APPLIED"
           row == [status |-> s, retryable |-> FALSE, waiting |-> FALSE]
<1>1. s \in Acknowledged /\ s \in BatchStatuses /\ row \in Delivery /\ row.status = s
  BY DEF Acknowledged, BatchStatuses, Delivery
<1>2. Settle(c, row, s) /\ Sending(c) /\ call[c].reply \in {"applied", "duplicate"}
  BY DEF RecordAcknowledgement
<1>3. row.status = "APPLIED" => call[c].reply = "applied"
  BY <1>2
<1> HIDE DEF s, row
<1> QED BY <1>1, <1>2, <1>3, SettleInv

LEMMA RecordFailureInv ==
  ASSUME SnapshotInv, NEW c \in Calls, RecordFailure(c)
  PROVE  SnapshotInv'
<1>1. PICK retryable \in BOOLEAN :
        Settle(c, [status |-> "FAILED", retryable |-> retryable, waiting |-> retryable],
               IF retryable THEN "RETRYABLE_FAILURE" ELSE "FAILED")
  BY DEF RecordFailure, MayRetry
<1> DEFINE s == IF retryable THEN "RETRYABLE_FAILURE" ELSE "FAILED"
           row == [status |-> "FAILED", retryable |-> retryable, waiting |-> retryable]
<1>2. /\ s \in BatchStatuses /\ s \in {"FAILED", "RETRYABLE_FAILURE"}
      /\ row \in Delivery /\ row.status = "FAILED" /\ row.status \notin Acknowledged
      /\ row.retryable = (s = "RETRYABLE_FAILURE")
  BY DEF Acknowledged, BatchStatuses, Delivery
<1>3. Settle(c, row, s) /\ Sending(c) /\ row.status # "APPLIED"
  BY <1>1 DEF RecordFailure
<1> HIDE DEF s, row
<1> QED BY <1>2, <1>3, SettleInv

LEMMA BackoffElapsesInv ==
  ASSUME SnapshotInv, NEW v \in Versions, BackoffElapses(v)
  PROVE  SnapshotInv'
<1> USE DEF SnapshotInv
<1>0. UNCHANGED << now, leaveStatus, effectiveAt, batch, call, wire, open, accepted >>
  BY DEF BackoffElapses, sourceVars, specialVars
<1>1. PICK a \in Attempts : a = LatestAttempt(v) /\ Opened(v, a)
  BY LatestAttemptIs DEF BackoffElapses
<1>2. delivery[v][a] \in Delivery
  BY <1>1 DEF TypeOK, Opened
<1>3. PICK row \in Delivery :
        /\ row.status = delivery[v][a].status /\ row.retryable = delivery[v][a].retryable
        /\ delivery' = [delivery EXCEPT ![v][a] = row]
  <2>1. [delivery[v][a] EXCEPT !.waiting = FALSE] \in Delivery
    BY <1>2 DEF Delivery
  <2>2. delivery' = [delivery EXCEPT ![v][a] = [delivery[v][a] EXCEPT !.waiting = FALSE]]
    BY <1>1 DEF BackoffElapses, TypeOK
  <2>3. /\ [delivery[v][a] EXCEPT !.waiting = FALSE].status = delivery[v][a].status
        /\ [delivery[v][a] EXCEPT !.waiting = FALSE].retryable = delivery[v][a].retryable
    BY <1>2 DEF Delivery
  <2> QED BY <2>1, <2>2, <2>3
<1>4. /\ delivery' \in [Versions -> [Attempts -> Delivery \cup {NoDelivery}]]
      /\ \A w \in Versions, b \in Attempts :
           /\ Opened(w, b)' <=> Opened(w, b)
           /\ delivery'[w][b].status = delivery[w][b].status
           /\ delivery'[w][b].retryable = delivery[w][b].retryable
  <2>1. /\ delivery' \in [Versions -> [Attempts -> Delivery \cup {NoDelivery}]]
        /\ delivery'[v][a] = row
        /\ \A w \in Versions, b \in Attempts :
             w # v \/ b # a => delivery'[w][b] = delivery[w][b]
        /\ \A w \in Versions, b \in Attempts :
             Opened(w, b)' <=> Opened(w, b) \/ (w = v /\ b = a)
    BY <1>3, StoreDeliveryIs
  <2> QED BY <1>1, <1>3, <2>1
<1>5. /\ \A d \in Calls : Sending(d)' <=> Sending(d)
      /\ \A w \in Versions : Prepared(w)' <=> Prepared(w)
  BY <1>0 DEF Sending, Prepared
<1>6. TypeOK'
  BY <1>0, <1>4 DEF TypeOK
<1>7. AttemptsExact'
  <2>1. \A w \in Versions, e \in Attempts :
          Opened(w, e)' => Prepared(w)' /\ \A b \in 1 .. e : Opened(w, b)'
    BY <1>4, <1>5, AttemptsBelow DEF AttemptsExact
  <2>2. \A d \in Calls : Sending(d)' =>
          delivery'[call'[d].version][call'[d].attempt].status = "SENDING"
    BY <1>0, <1>4, <1>5, SendingIs
  <2> QED BY <1>0, <1>5, <2>1, <2>2 DEF AttemptsExact
<1>8. StatusExplained'
  <2>1. \A w \in Versions : LatestAttempt(w) = 0 => LatestAttempt(w)' = 0
    BY <1>4, LatestAttemptIs DEF LatestAttempt
  <2> QED BY <1>0, <1>4, <1>5, <2>1 DEF StatusExplained
<1>9. CallsGrounded'
  <2> SUFFICES ASSUME NEW d \in Calls, call'[d] # Idle PROVE Grounded(call[d])'
    BY DEF CallsGrounded
  <2>1. call'[d] = call[d] /\ Grounded(call[d]) /\ call[d] \in PrepareCall \cup DeliverCall
    BY <1>0 DEF TypeOK, CallsGrounded
  <2>2. call[d].op # "prepare" => call[d].version \in Versions /\ call[d].attempt \in Attempts
    BY <2>1 DEF PrepareCall, DeliverCall
  <2> QED BY <1>4, <1>5, <2>1, <2>2 DEF Grounded
<1>10. RequestsGrounded'
  <2>1. \A r \in wire : r.version \in Versions /\ r.attempt \in Attempts
    BY DEF TypeOK, Request
  <2>2. accepted \subseteq Versions
    BY DEF TypeOK
  <2> QED BY <1>0, <1>4, <2>1, <2>2 DEF RequestsGrounded
<1>11. VersionsGapless'
  BY <1>5 DEF VersionsGapless
<1>12. MarksHold'
  <2>1. \A w \in Versions, b \in Attempts : Marked(w, b)' <=> Marked(w, b)
    BY <1>0, <1>4, <1>5 DEF Marked
  <2> QED BY <1>0, <1>4, <1>5, <2>1 DEF MarksHold
<1> QED BY <1>6, <1>7, <1>8, <1>9, <1>10, <1>11, <1>12

(* Special's answer reaches the call that posted, if it is still there.      *)
LEMMA AnswerInv ==
  ASSUME SnapshotInv, NEW r \in wire, NEW reply \in Replies, Answer(r, reply),
         accepted' = accepted \/ accepted' = accepted \cup {r.version},
         reply = "applied" => r.version \notin accepted /\ r.version \in accepted',
         reply = "duplicate" => r.version \in accepted'
  PROVE  SnapshotInv'
<1> USE DEF SnapshotInv
<1>0. /\ UNCHANGED << now, leaveStatus, effectiveAt, batch, delivery, open >>
      /\ wire' = wire \ {r}
  BY DEF Answer, sourceVars, tableVars
<1>1. PICK v \in Versions, a \in Attempts : v = r.version /\ a = r.attempt /\ Opened(v, a)
  BY DEF TypeOK, Request, RequestsGrounded
<1> DEFINE Reached(d) == Sending(d) /\ call[d].version = v /\ call[d].attempt = a
<1>2. \A d \in Calls :
        call'[d] = IF Reached(d) THEN [call[d] EXCEPT !.reply = reply] ELSE call[d]
  BY <1>1 DEF Answer
<1>3. ASSUME NEW d \in Calls, Reached(d)
      PROVE  /\ call'[d] \in DeliverCall /\ call'[d] # Idle
             /\ call'[d].op = call[d].op /\ call'[d].version = call[d].version
             /\ call'[d].attempt = call[d].attempt /\ call'[d].reply = reply
  <2>1. call[d] \in DeliverCall
    BY <1>3, SendingIs
  <2>2. call'[d] = [call[d] EXCEPT !.reply = reply]
    BY <1>2, <1>3
  <2> QED BY <2>1, <2>2, SnapshotAssumption DEF DeliverCall
<1> HIDE DEF Reached
<1>4. \A d \in Calls :
        /\ call'[d] = Idle <=> call[d] = Idle
        /\ Sending(d)' <=> Sending(d)
        /\ ~Reached(d) => call'[d] = call[d]
  <2> SUFFICES ASSUME NEW d \in Calls
               PROVE  /\ call'[d] = Idle <=> call[d] = Idle
                      /\ Sending(d)' <=> Sending(d)
                      /\ ~Reached(d) => call'[d] = call[d]
    OBVIOUS
  <2>1. CASE Reached(d)
    <3>1. Sending(d)
      BY <2>1 DEF Reached
    <3> QED BY <1>3, <2>1, <3>1 DEF Sending
  <2>2. CASE ~Reached(d)
    BY <1>2, <2>2 DEF Sending
  <2> QED BY <2>1, <2>2
<1>5. \A d \in Calls : Sending(d) =>
        call'[d].version = call[d].version /\ call'[d].attempt = call[d].attempt
  BY <1>3, <1>4
<1>6. TypeOK'
  <2>1. call' \in [Calls -> PrepareCall \cup DeliverCall \cup {Idle}]
    <3>1. call' = [d \in Calls |-> call'[d]]
      BY DEF Answer
    <3>2. \A d \in Calls : call'[d] \in PrepareCall \cup DeliverCall \cup {Idle}
      BY <1>3, <1>4 DEF TypeOK
    <3> QED BY <3>1, <3>2
  <2> QED BY <1>0, <1>1, <2>1 DEF TypeOK
<1>7. /\ \A w \in Versions : Prepared(w)' <=> Prepared(w)
      /\ \A w \in Versions, b \in Attempts : Opened(w, b)' <=> Opened(w, b)
  BY <1>0 DEF Prepared, Opened
<1>8. AttemptsExact'
  <2>1. \A w \in Versions, e \in Attempts :
          Opened(w, e)' => Prepared(w)' /\ \A b \in 1 .. e : Opened(w, b)'
    BY <1>7, AttemptsBelow DEF AttemptsExact
  <2> QED BY <1>0, <1>4, <1>5, <2>1 DEF AttemptsExact
<1>9. StatusExplained'
  BY <1>0 DEF StatusExplained, Prepared, Opened, LatestAttempt
<1>10. CallsGrounded'
  <2> SUFFICES ASSUME NEW d \in Calls, call'[d] # Idle PROVE Grounded(call[d])'
    BY DEF CallsGrounded
  <2>1. Grounded(call[d]) /\ call[d] \in PrepareCall \cup DeliverCall
    BY <1>4 DEF TypeOK, CallsGrounded
  <2>2. call[d].op # "prepare" => call[d].version \in Versions /\ call[d].attempt \in Attempts
    BY <2>1 DEF PrepareCall, DeliverCall
  <2>3. /\ call'[d].op = call[d].op /\ call'[d].version = call[d].version
        /\ call[d].op # "prepare" => call'[d].attempt = call[d].attempt
    BY <1>3, <1>4
  <2> QED BY <1>7, <2>1, <2>2, <2>3 DEF Grounded
<1>11. RequestsGrounded'
  <2>1. \A q \in wire : q.version \in Versions /\ q.attempt \in Attempts
    BY DEF TypeOK, Request
  <2>2. accepted \subseteq Versions
    BY DEF TypeOK
  <2> QED BY <1>0, <1>1, <1>7, <2>1, <2>2 DEF RequestsGrounded
<1>12. VersionsGapless'
  BY <1>7 DEF VersionsGapless
<1>13. MarksHold'
  <2>1. \A w \in Versions, b \in Attempts :
          Marked(w, b)' => Marked(w, b) \/ (reply = "applied" /\ w = v /\ b = a)
    <3> SUFFICES ASSUME NEW w \in Versions, NEW b \in Attempts, Marked(w, b)',
                        ~(reply = "applied" /\ w = v /\ b = a)
                 PROVE  Marked(w, b)
      OBVIOUS
    <3>1. CASE Opened(w, b)' /\ delivery'[w][b].status = "APPLIED"
      BY <1>0, <1>7, <3>1 DEF Marked
    <3>2. CASE \E d \in Calls : /\ Sending(d)' /\ call'[d].reply = "applied"
                                /\ call'[d].version = w /\ call'[d].attempt = b
      <4>1. PICK d \in Calls : /\ Sending(d)' /\ call'[d].reply = "applied"
                               /\ call'[d].version = w /\ call'[d].attempt = b
        BY <3>2
      <4>2. ~Reached(d)
        BY <1>3, <1>5, <1>4, <4>1 DEF Reached
      <4> QED BY <1>4, <4>1, <4>2 DEF Marked
    <3> QED BY <3>1, <3>2 DEF Marked
  <2>2. \A b \in Attempts : Marked(v, b) => v \in accepted
    BY DEF MarksHold, Marked, Acknowledged
  <2>3. \A w \in Versions : \A b, e \in Attempts : (Marked(w, b) /\ Marked(w, e))' => b = e
    BY <1>1, <2>1, <2>2 DEF MarksHold
  <2>4. \A d \in Calls : Sending(d)' /\ call'[d].reply \in {"applied", "duplicate"} =>
          call'[d].version \in accepted'
    <3> SUFFICES ASSUME NEW d \in Calls, Sending(d)', call'[d].reply \in {"applied", "duplicate"}
                 PROVE  call'[d].version \in accepted'
      OBVIOUS
    <3>1. CASE Reached(d)
      BY <1>1, <1>3, <1>5, <1>4, <3>1 DEF Reached
    <3>2. CASE ~Reached(d)
      BY <1>4, <3>2 DEF MarksHold
    <3> QED BY <3>1, <3>2
  <2> QED BY <1>0, <1>7, <2>3, <2>4 DEF MarksHold
<1> QED BY <1>6, <1>8, <1>9, <1>10, <1>11, <1>12, <1>13

LEMMA SpecialInv ==
  ASSUME SnapshotInv, SpecialNext
  PROVE  SnapshotInv'
<1>1. ASSUME NEW r \in wire, NEW reply \in Replies, SpecialApplies(r, reply) PROVE SnapshotInv'
  <2>1. r.version \in Versions /\ accepted \subseteq Versions /\ \A v \in Versions : ~(v < v)
    BY SnapshotAssumption DEF SnapshotInv, TypeOK, Request, Versions
  <2>2. r.version \notin accepted
    BY <1>1, <2>1 DEF SpecialApplies, IsNewest
  <2>3. Answer(r, reply) /\ accepted' = accepted \cup {r.version} /\ reply \in {"applied", "final"}
    BY <1>1 DEF SpecialApplies
  <2> QED BY <2>2, <2>3, AnswerInv
<1>2. ASSUME NEW r \in wire, NEW reply \in Replies, SpecialRepeats(r, reply) PROVE SnapshotInv'
  <2>1. /\ Answer(r, reply) /\ accepted' = accepted /\ reply \in {"duplicate", "final"}
        /\ r.version \in accepted
    BY <1>2 DEF SpecialRepeats
  <2> QED BY <2>1, AnswerInv
<1>3. ASSUME NEW r \in wire, SpecialRefuses(r) PROVE SnapshotInv'
  <2>1. Answer(r, "final") /\ accepted' = accepted /\ "final" \in Replies
    BY <1>3 DEF SpecialRefuses, Replies
  <2> QED BY <2>1, AnswerInv
<1>4. ASSUME NEW r \in wire, SpecialIsUnavailable(r) PROVE SnapshotInv'
  <2>1. Answer(r, "none") /\ accepted' = accepted /\ "none" \in Replies
    BY <1>4 DEF SpecialIsUnavailable, Replies
  <2> QED BY <2>1, AnswerInv
<1>5. ASSUME SpecialLocksPeriod PROVE SnapshotInv'
  BY <1>5, SourceInv DEF SpecialLocksPeriod, SnapshotInv, TypeOK, sourceVars
<1> QED BY <1>1, <1>2, <1>3, <1>4, <1>5 DEF SpecialNext

LEMMA StepInv == SnapshotInv /\ [Next]_vars => SnapshotInv'
<1> SUFFICES ASSUME SnapshotInv, [Next]_vars PROVE SnapshotInv'
  OBVIOUS
<1>1. ASSUME NEW l \in Leaves, RecordPaperApproval(l) \/ VoidLeave(l) PROVE SnapshotInv'
  BY <1>1, SourceInv DEF RecordPaperApproval, VoidLeave, SnapshotInv, TypeOK, specialVars
<1>2. ASSUME Tick PROVE SnapshotInv'
  <2>1. now' \in Times
    BY <1>2, SnapshotAssumption DEF Tick, SnapshotInv, TypeOK, Times
  <2> QED BY <1>2, <2>1, SourceInv DEF Tick, SnapshotInv, TypeOK, specialVars
<1>3. ASSUME NEW c \in Calls, NEW cutoff \in Cutoffs, BeginPrepare(c, cutoff) PROVE SnapshotInv'
  <2>1. PICK j \in PrepareCall : j.version = 0 /\ call' = [call EXCEPT ![c] = j]
    <3>1. [cutoff |-> cutoff, leaves |-> EffectiveBy(cutoff)] \in Content
      BY DEF Content, EffectiveBy
    <3>2. 0 \in 0 .. MaxVersion + 1
      BY SnapshotAssumption
    <3> QED BY <1>3, <3>1, <3>2 DEF BeginPrepare, PrepareCall
  <2>2. Grounded(j) /\ j.op = "prepare" /\ j \in PrepareCall \cup DeliverCall \cup {Idle}
    BY <2>1, SnapshotAssumption DEF Grounded, PrepareCall, Versions
  <2> QED BY <1>3, <2>1, <2>2, CallInv DEF BeginPrepare
<1>4. ASSUME NEW c \in Calls, FindExisting(c) \/ AbandonCall(c) PROVE SnapshotInv'
  BY <1>4, CallInv DEF FindExisting, AbandonCall
<1>5. CASE UNCHANGED vars
  BY <1>5, SourceInv DEF vars, SnapshotInv, TypeOK, sourceVars, specialVars
<1> QED BY <1>1, <1>2, <1>3, <1>4, <1>5, ChooseVersionInv, InsertBatchInv, BeginDeliverInv,
     StartSendingInv, RecordAcknowledgementInv, RecordFailureInv, BackoffElapsesInv, SpecialInv
     DEF Next

LEMMA SpecInv == Spec => []SnapshotInv
  BY InitInv, StepInv, PTL DEF Spec

(***************************************************************************)
(* The invariants of the component.                                        *)
(***************************************************************************)
LEMMA AtMostOne ==
  ASSUME NEW S, \A x, y \in S : x = y
  PROVE  Cardinality(S) <= 1
<1>1. CASE S = {}
  BY <1>1, FS_EmptySet
<1>2. CASE S # {}
  <2>1. PICK x \in S : S = {x}
    BY <1>2
  <2> QED BY <2>1, FS_Singleton
<1> QED BY <1>1, <1>2

LEMMA AppliedOnceHolds == SnapshotInv => AppliedOnce
<1> SUFFICES ASSUME SnapshotInv, NEW v \in Versions
             PROVE  /\ Cardinality({a \in Attempts :
                         Opened(v, a) /\ delivery[v][a].status = "APPLIED"}) <= 1
                    /\ \A a \in Attempts :
                         Opened(v, a) /\ delivery[v][a].status \in Acknowledged => v \in accepted
  BY DEF AppliedOnce
<1> DEFINE S == {a \in Attempts : Opened(v, a) /\ delivery[v][a].status = "APPLIED"}
<1>1. \A x, y \in S : x = y
  BY DEF SnapshotInv, MarksHold, Marked
<1>2. Cardinality(S) <= 1
  <2> HIDE DEF S
  <2> QED BY <1>1, AtMostOne
<1> QED BY <1>2 DEF SnapshotInv, MarksHold

LEMMA ReconciliationHolds == SnapshotInv => ReconciliationHonest
<1> SUFFICES ASSUME SnapshotInv, NEW v \in Versions, Prepared(v)
             PROVE  /\ Reconciliation(v) = "MATCHED" => v \in accepted
                    /\ Reconciliation(v) = "NOT_SENT" => v \notin accepted
  BY DEF ReconciliationHonest
<1>1. /\ LatestAttempt(v) = 0 <=> \A a \in Attempts : ~Opened(v, a)
      /\ LatestAttempt(v) > 0 => LatestAttempt(v) \in Attempts /\ Opened(v, LatestAttempt(v))
      /\ LatestAttempt(v) = 0 \/ LatestAttempt(v) > 0
  BY LatestAttemptIs, SnapshotAssumption DEF SnapshotInv
<1>2. CASE LatestAttempt(v) = 0
  <2>1. v \notin accepted
    BY <1>1, <1>2 DEF SnapshotInv, RequestsGrounded
  <2>2. Reconciliation(v) = "NOT_SENT"
    BY <1>2 DEF Reconciliation
  <2> QED BY <2>1, <2>2
<1>3. CASE LatestAttempt(v) > 0 /\ batch[v].status \in {"DELIVERING", "RETRYABLE_FAILURE"}
  BY <1>3, SMT DEF Reconciliation
<1>4. CASE LatestAttempt(v) > 0 /\ batch[v].status = "FAILED"
  BY <1>4, SMT DEF Reconciliation
<1>5. CASE /\ LatestAttempt(v) > 0
           /\ batch[v].status \notin {"DELIVERING", "RETRYABLE_FAILURE", "FAILED"}
  <2>1. Reconciliation(v) = IF delivery[v][LatestAttempt(v)].status \in Acknowledged
                            THEN "MATCHED" ELSE "MISMATCH"
    BY <1>5, SMT DEF Reconciliation
  <2>2. delivery[v][LatestAttempt(v)].status \in Acknowledged => v \in accepted
    BY <1>1, <1>5 DEF SnapshotInv, MarksHold
  <2> QED BY <2>1, <2>2
<1> QED BY <1>1, <1>2, <1>3, <1>4, <1>5

(* Every row, call and request is of its type.                               *)
THEOREM TypeCorrect == Spec => []TypeOK
<1>1. SnapshotInv => TypeOK
  BY DEF SnapshotInv
<1> QED BY <1>1, SpecInv, PTL

(* Deliveries are numbered without gap, and two calls never send under one   *)
(* number, although deliver computes it before its transaction.              *)
THEOREM AttemptsCorrect == Spec => []AttemptsExact
<1>1. SnapshotInv => AttemptsExact
  BY DEF SnapshotInv
<1> QED BY <1>1, SpecInv, PTL

(* At most one delivery of a batch ends APPLIED, and an acknowledged one is  *)
(* of a version that Special has applied.                                    *)
THEOREM AppliedOnceCorrect == Spec => []AppliedOnce
  BY AppliedOnceHolds, SpecInv, PTL

(* The status of a batch is the outcome of one of its deliveries, also after *)
(* settlements that overtake each other.                                     *)
THEOREM StatusCorrect == Spec => []StatusExplained
<1>1. SnapshotInv => StatusExplained
  BY DEF SnapshotInv
<1> QED BY <1>1, SpecInv, PTL

(* getBatch never reports better than the truth.                             *)
THEOREM ReconciliationCorrect == Spec => []ReconciliationHonest
  BY ReconciliationHolds, SpecInv, PTL

(***************************************************************************)
(* The abstract ledger is implemented.                                     *)
(***************************************************************************)
PreparedVersions == {w \in Versions : Prepared(w)}
LedgerContents == [v \in 1 .. Cardinality(PreparedVersions) |-> batch[v].content]
Confirmed ==
  {v \in Versions : \E a \in Attempts : Opened(v, a) /\ delivery[v][a].status \in Acknowledged}

LEMMA PreparedAre ==
  ASSUME SnapshotInv
  PROVE  /\ LatestVersion \in Nat /\ PreparedVersions = 1 .. LatestVersion
         /\ Cardinality(PreparedVersions) = LatestVersion
<1>1. LatestVersion \in Nat /\ LatestVersion <= MaxVersion /\ MaxVersion \in Nat
  BY LatestVersionIs, SnapshotAssumption
<1>2. \A w \in Versions : w < LatestVersion => Prepared(w)
  BY <1>1, LatestVersionIs DEF SnapshotInv, VersionsGapless, Versions
<1>3. PreparedVersions = 1 .. LatestVersion
  <2>1. ASSUME NEW w \in 1 .. LatestVersion PROVE w \in PreparedVersions
    <3>1. w \in Versions /\ LatestVersion > 0 /\ (w = LatestVersion \/ w < LatestVersion)
      BY <1>1 DEF Versions
    <3> QED BY <1>2, <3>1, LatestVersionIs DEF PreparedVersions
  <2>2. ASSUME NEW w \in PreparedVersions PROVE w \in 1 .. LatestVersion
    BY <1>1, LatestVersionIs DEF PreparedVersions, Versions
  <2> QED BY <2>1, <2>2
<1> QED BY <1>1, <1>3, FS_Interval

LEMMA ContentsStay ==
  ASSUME SnapshotInv,
         \A v \in Versions : /\ Prepared(v)' <=> Prepared(v)
                             /\ Prepared(v) => batch'[v].content = batch[v].content
  PROVE  LedgerContents' = LedgerContents
<1>1. PreparedVersions' = PreparedVersions
  BY DEF PreparedVersions
<1>2. \A v \in 1 .. Cardinality(PreparedVersions) : v \in Versions /\ Prepared(v)
  BY PreparedAre DEF PreparedVersions
<1> QED BY <1>1, <1>2 DEF LedgerContents

(* The state of the ledger, as the component's module substitutes it.        *)
LEMMA LedgerIs == Ledger!ledgerVars = << LedgerContents, accepted, Confirmed >>
  BY DEF Ledger!ledgerVars, LedgerContents, PreparedVersions, Confirmed

LEMMA LedgerInit == Init => Ledger!Init
<1> SUFFICES ASSUME Init PROVE Ledger!Init
  OBVIOUS
<1>1. PreparedVersions = {}
  BY DEF Init, PreparedVersions, Prepared
<1>2. Cardinality(PreparedVersions) = 0
  BY <1>1, FS_EmptySet
<1>3. LedgerContents = << >>
  BY <1>2 DEF LedgerContents
<1>4. Confirmed = {}
  BY DEF Init, Confirmed, Opened
<1> QED BY <1>3, <1>4 DEF Init, Ledger!Init, LedgerContents, PreparedVersions, Confirmed

LEMMA AppendIs ==
  ASSUME NEW S, NEW h \in Seq(S), NEW x \in S, NEW k \in Seq(S), Len(k) = Len(h) + 1,
         k[Len(h) + 1] = x, \A n \in 1 .. Len(h) : k[n] = h[n]
  PROVE  Append(h, x) = k
<1>1. /\ Append(h, x) \in Seq(S) /\ Len(Append(h, x)) = Len(k)
      /\ \A n \in 1 .. Len(Append(h, x)) : Append(h, x)[n] = k[n]
  BY AppendProperties
<1> QED BY <1>1, SeqEqual

(* A batch that is inserted is the next entry of the ledger.                 *)
LEMMA InsertAddsVersion ==
  ASSUME SnapshotInv, NEW c \in Calls, InsertBatch(c)
  PROVE  \E x \in Content : Ledger!AddVersion(x)
<1> DEFINE n == LatestVersion
<1>1. /\ n \in Nat /\ PreparedVersions = 1 .. n /\ Cardinality(PreparedVersions) = n
      /\ MaxVersion \in Nat
  BY PreparedAre, SnapshotAssumption
<1>2. call[c] \in PrepareCall
  BY DEF SnapshotInv, TypeOK, InsertBatch, Preparing, DeliverCall
<1>3. PICK v \in Versions, x \in Content, row \in Batch :
        /\ v = call[c].version /\ x = call[c].content
        /\ row.content = x /\ batch' = [batch EXCEPT ![v] = row]
        /\ ~Prepared(v)
        /\ \A w \in Versions : ~(Prepared(w) /\ batch[w].content = x)
  <2> DEFINE row == [content |-> call[c].content, status |-> "PREPARED"]
  <2>1. call[c].content \in Content
    BY <1>2 DEF PrepareCall
  <2>2. row \in Batch /\ row.content = call[c].content
    BY <2>1 DEF Batch, BatchStatuses
  <2>3. /\ call[c].version \in Versions
        /\ batch' = [batch EXCEPT ![call[c].version] = row]
        /\ ~Prepared(call[c].version)
        /\ \A w \in Versions : ~(Prepared(w) /\ batch[w].content = call[c].content)
    BY DEF InsertBatch
  <2> HIDE DEF row
  <2> QED BY <2>1, <2>2, <2>3
<1>4. \A w \in Versions : w < v => Prepared(w)
  BY <1>2, <1>3 DEF SnapshotInv, CallsGrounded, Grounded, PrepareCall, InsertBatch, Preparing
<1>5. v = n + 1
  <2>1. v \in Nat /\ v > 0 /\ v \notin 1 .. n
    BY <1>1, <1>3 DEF Versions, PreparedVersions
  <2>2. v > n + 1 => n + 1 \in Versions /\ n + 1 \notin 1 .. n
    BY <1>1, <2>1 DEF Versions
  <2>3. ~(v > n + 1)
    BY <1>1, <1>4, <2>1, <2>2 DEF PreparedVersions
  <2> QED BY <1>1, <2>1, <2>3
<1>6. /\ row # NoBatch /\ batch'[v].content = x
      /\ \A w \in Versions : w # v => batch'[w] = batch[w]
  BY <1>3, SnapshotAssumption DEF SnapshotInv, TypeOK
<1>7. PreparedVersions' = 1 .. n + 1
  <2>1. \A w \in Versions : Prepared(w)' <=> Prepared(w) \/ w = v
    BY <1>3, <1>6 DEF SnapshotInv, TypeOK, Prepared
  <2>2. PreparedVersions' = PreparedVersions \cup {v}
    BY <2>1 DEF PreparedVersions
  <2> QED BY <1>1, <1>5, <2>2
<1>8. Cardinality(PreparedVersions') = n + 1
  BY <1>1, <1>7, FS_Interval
<1> HIDE DEF n
<1>9. PICK h, k :
        /\ h = [w \in 1 .. n |-> batch[w].content]
        /\ k = [w \in 1 .. n + 1 |-> batch'[w].content]
  OBVIOUS
<1>10. /\ \A w \in 1 .. n : w \in Versions /\ Prepared(w) /\ w # v /\ batch[w] \in Batch
       /\ \A w \in 1 .. n : batch[w].content \in Content /\ batch'[w] = batch[w]
  <2>1. \A w \in 1 .. n : w \in Versions /\ Prepared(w) /\ w # v
    BY <1>1, <1>5 DEF PreparedVersions
  <2>2. \A w \in 1 .. n : batch[w] \in Batch
    BY <2>1 DEF SnapshotInv, TypeOK, Prepared
  <2> QED BY <1>6, <2>1, <2>2 DEF Batch
<1>11. \A w \in 1 .. n + 1 : batch'[w].content \in Content
  BY <1>1, <1>3, <1>5, <1>6, <1>10
<1>12. /\ h \in Seq(Content) /\ k \in Seq(Content) /\ Len(h) = n /\ Len(k) = n + 1
       /\ k[n + 1] = x /\ \A w \in 1 .. n : k[w] = h[w] /\ h[w] # x
  <2>1. n + 1 \in Nat /\ 1 .. n \subseteq 1 .. n + 1 /\ n + 1 \in 1 .. n + 1
    BY <1>1
  <2>2. h \in [1 .. n -> Content] /\ k \in [1 .. n + 1 -> Content]
    BY <1>9, <1>10, <1>11
  <2>3. h \in Seq(Content) /\ k \in Seq(Content) /\ Len(h) = n /\ Len(k) = n + 1
    BY <1>1, <2>1, <2>2
  <2>4. k[n + 1] = x
    BY <1>5, <1>6, <1>9, <2>1
  <2>5. \A w \in 1 .. n : k[w] = h[w]
    BY <1>9, <1>10, <2>1
  <2>6. \A w \in 1 .. n : h[w] # x
    BY <1>3, <1>9, <1>10
  <2> QED BY <2>3, <2>4, <2>5, <2>6
<1>13. Append(h, x) = k
  BY <1>12, AppendIs
<1>14. LedgerContents = h /\ LedgerContents' = k
  BY <1>1, <1>8, <1>9 DEF LedgerContents
<1>15. accepted' = accepted /\ Confirmed' = Confirmed
  BY DEF InsertBatch, specialVars, Confirmed, Opened
<1>16. /\ \A w \in 1 .. Len(LedgerContents) : LedgerContents[w] # x
       /\ LedgerContents' = Append(LedgerContents, x)
       /\ UNCHANGED << accepted, Confirmed >>
  BY <1>12, <1>13, <1>14, <1>15
<1>17. Ledger!AddVersion(x)
  BY <1>16 DEF Ledger!AddVersion, LedgerContents, PreparedVersions, Confirmed
<1> QED BY <1>17

(* A version with a delivery is an entry of the ledger.                      *)
LEMMA OpenedIsEntry ==
  ASSUME SnapshotInv, NEW v \in Versions, Prepared(v)
  PROVE  v \in 1 .. Len(LedgerContents)
<1>1. v \in 1 .. Cardinality(PreparedVersions) /\ Cardinality(PreparedVersions) \in Nat
  BY PreparedAre DEF PreparedVersions
<1>2. Len(LedgerContents) = Cardinality(PreparedVersions)
  BY <1>1 DEF LedgerContents
<1> QED BY <1>1, <1>2

(* Special's application is the ledger's; every other answer is a stutter.   *)
LEMMA SpecialMaps ==
  ASSUME SnapshotInv, SpecialNext
  PROVE  \/ \E v \in 1 .. Len(LedgerContents) : Ledger!Apply(v)
         \/ UNCHANGED << LedgerContents, accepted, Confirmed >>
<1>1. UNCHANGED << batch, delivery >>
  BY DEF SpecialNext, SpecialApplies, SpecialRepeats, SpecialRefuses, SpecialIsUnavailable,
         SpecialLocksPeriod, Answer, tableVars
<1>2. Confirmed' = Confirmed /\ LedgerContents' = LedgerContents
  BY <1>1 DEF Confirmed, Opened, LedgerContents, PreparedVersions, Prepared
<1>3. CASE accepted' = accepted
  BY <1>2, <1>3
<1>4. CASE accepted' # accepted
  <2>1. PICK r \in wire, reply \in Replies : SpecialApplies(r, reply)
    BY <1>4 DEF SpecialNext, SpecialRepeats, SpecialRefuses, SpecialIsUnavailable,
                SpecialLocksPeriod
  <2>2. /\ r.version \in Versions /\ r.attempt \in Attempts
        /\ Opened(r.version, r.attempt)
    BY DEF SnapshotInv, TypeOK, Request, RequestsGrounded
  <2>3. r.version \in 1 .. Len(LedgerContents)
    BY <2>2, OpenedIsEntry DEF SnapshotInv, AttemptsExact
  <2>4. /\ \A w \in accepted : w < r.version
        /\ accepted' = accepted \cup {r.version}
        /\ UNCHANGED << LedgerContents, Confirmed >>
    BY <1>2, <2>1 DEF SpecialApplies, IsNewest
  <2>5. Ledger!Apply(r.version)
    BY <2>4 DEF Ledger!Apply, LedgerContents, PreparedVersions, Confirmed
  <2> QED BY <2>3, <2>5
<1> QED BY <1>3, <1>4

(* What a settlement writes, as far as the ledger can see it.                *)
LEMMA SettleIs ==
  ASSUME SnapshotInv, NEW c \in Calls, Sending(c), NEW row \in Delivery, NEW s \in BatchStatuses,
         Settle(c, row, s)
  PROVE  /\ LedgerContents' = LedgerContents /\ accepted' = accepted
         /\ row.status \in Acknowledged => Confirmed' = Confirmed \cup {call[c].version}
         /\ row.status \notin Acknowledged => Confirmed' = Confirmed
<1>1. PICK v \in Versions, a \in Attempts :
        /\ v = call[c].version /\ a = call[c].attempt
        /\ Prepared(v) /\ Opened(v, a) /\ delivery[v][a].status = "SENDING"
        /\ TypeOK /\ SetStatus(v, s)
        /\ delivery' = [delivery EXCEPT ![v][a] = row]
        /\ accepted' = accepted
  BY SendingIs DEF Settle, specialVars, SnapshotInv
<1>2. LedgerContents' = LedgerContents
  <2>1. /\ \A w \in Versions : w # v => batch'[w] = batch[w]
        /\ batch'[v].content = batch[v].content
        /\ \A w \in Versions : Prepared(w)' <=> Prepared(w)
    BY <1>1, SetStatusIs
  <2> QED BY <2>1, ContentsStay
<1>3. /\ delivery'[v][a] = row
      /\ \A w \in Versions, b \in Attempts : w # v \/ b # a => delivery'[w][b] = delivery[w][b]
      /\ \A w \in Versions, b \in Attempts : Opened(w, b)' <=> Opened(w, b) \/ (w = v /\ b = a)
  <2>1. TypeOK /\ delivery' = [delivery EXCEPT ![v][a] = row]
    BY <1>1
  <2> QED BY <2>1, StoreDeliveryIs, Zenon
<1>4. \A w \in Versions \ {v} : w \in Confirmed' <=> w \in Confirmed
  BY <1>3 DEF Confirmed
<1>5. CASE row.status \in Acknowledged
  <2>1. v \in Confirmed'
    BY <1>3, <1>5 DEF Confirmed
  <2>2. Confirmed' = Confirmed \cup {v}
    BY <1>4, <2>1 DEF Confirmed
  <2> QED BY <1>1, <1>2, <1>5, <2>2
<1>6. CASE row.status \notin Acknowledged
  <2>1. v \in Confirmed' <=> v \in Confirmed
    BY <1>1, <1>3, <1>6 DEF Confirmed, Acknowledged
  <2>2. Confirmed' = Confirmed
    BY <1>4, <2>1 DEF Confirmed
  <2> QED BY <1>1, <1>2, <1>6, <2>2
<1> QED BY <1>5, <1>6

LEMMA AcknowledgementMaps ==
  ASSUME SnapshotInv, NEW c \in Calls, RecordAcknowledgement(c)
  PROVE  \E v \in 1 .. Len(LedgerContents) : Ledger!Confirm(v)
<1> DEFINE s == IF call[c].reply = "duplicate" THEN "DUPLICATE" ELSE "APPLIED"
           row == [status |-> s, retryable |-> FALSE, waiting |-> FALSE]
<1>1. s \in BatchStatuses /\ row \in Delivery /\ row.status \in Acknowledged
  BY DEF Acknowledged, BatchStatuses, Delivery
<1>2. Settle(c, row, s) /\ Sending(c) /\ call[c].reply \in {"applied", "duplicate"}
  BY DEF RecordAcknowledgement
<1> HIDE DEF s, row
<1>3. /\ LedgerContents' = LedgerContents /\ accepted' = accepted
      /\ Confirmed' = Confirmed \cup {call[c].version}
  BY <1>1, <1>2, SettleIs
<1>4. call[c].version \in accepted
  BY <1>2 DEF SnapshotInv, MarksHold
<1>5. PICK v \in 1 .. Len(LedgerContents) : v = call[c].version
  BY <1>2, SendingIs, OpenedIsEntry
<1>6. Ledger!Confirm(v)
  BY <1>3, <1>4, <1>5 DEF Ledger!Confirm, LedgerContents, PreparedVersions, Confirmed
<1> QED BY <1>6

LEMMA FailureMaps ==
  ASSUME SnapshotInv, NEW c \in Calls, RecordFailure(c)
  PROVE  UNCHANGED << LedgerContents, accepted, Confirmed >>
<1>1. PICK retryable \in BOOLEAN :
        Settle(c, [status |-> "FAILED", retryable |-> retryable, waiting |-> retryable],
               IF retryable THEN "RETRYABLE_FAILURE" ELSE "FAILED")
  BY DEF RecordFailure, MayRetry
<1> DEFINE s == IF retryable THEN "RETRYABLE_FAILURE" ELSE "FAILED"
           row == [status |-> "FAILED", retryable |-> retryable, waiting |-> retryable]
<1>2. s \in BatchStatuses /\ row \in Delivery /\ row.status \notin Acknowledged
  BY DEF Acknowledged, BatchStatuses, Delivery
<1>3. Settle(c, row, s) /\ Sending(c)
  BY <1>1 DEF RecordFailure
<1> HIDE DEF s, row
<1> QED BY <1>2, <1>3, SettleIs

LEMMA StartMaps ==
  ASSUME SnapshotInv, NEW c \in Calls, NEW configured \in BOOLEAN, StartSending(c, configured)
  PROVE  UNCHANGED << LedgerContents, accepted, Confirmed >>
<1>1. call[c] \in DeliverCall /\ call[c].op = "deliver"
  BY DEF SnapshotInv, TypeOK, StartSending, PrepareCall
<1>2. PICK v \in Versions, a \in Attempts, row \in Delivery :
        /\ v = call[c].version /\ a = call[c].attempt
        /\ ~Opened(v, a) /\ row.status = "SENDING"
        /\ SetStatus(v, "DELIVERING")
        /\ delivery' = [delivery EXCEPT ![v][a] = row]
  <2>1. PICK row \in Delivery : row = [status |-> "SENDING", retryable |-> FALSE, waiting |-> FALSE]
    BY DEF Delivery
  <2>2. /\ call[c].version \in Versions /\ call[c].attempt \in Attempts
        /\ SetStatus(call[c].version, "DELIVERING")
        /\ ~Opened(call[c].version, call[c].attempt)
        /\ delivery' = [delivery EXCEPT ![call[c].version][call[c].attempt] = row]
    BY <1>1, <2>1 DEF StartSending, DeliverCall
  <2>3. row.status = "SENDING"
    BY <2>1
  <2> QED BY <2>2, <2>3
<1>3. Prepared(v)
  BY <1>1, <1>2, SnapshotAssumption DEF SnapshotInv, CallsGrounded, Grounded, StartSending
<1>4. LedgerContents' = LedgerContents
  <2>1. /\ \A w \in Versions : w # v => batch'[w] = batch[w]
        /\ batch'[v].content = batch[v].content
        /\ \A w \in Versions : Prepared(w)' <=> Prepared(w)
    BY <1>2, <1>3, SetStatusIs DEF BatchStatuses, SnapshotInv
  <2> QED BY <2>1, ContentsStay
<1>5. /\ delivery'[v][a] = row
      /\ \A w \in Versions, b \in Attempts : w # v \/ b # a => delivery'[w][b] = delivery[w][b]
      /\ \A w \in Versions, b \in Attempts : Opened(w, b)' <=> Opened(w, b) \/ (w = v /\ b = a)
  <2>1. TypeOK /\ delivery' = [delivery EXCEPT ![v][a] = row]
    BY <1>2 DEF SnapshotInv
  <2> QED BY <2>1, StoreDeliveryIs, Zenon
<1>6. \A w \in Versions : w \in Confirmed' <=> w \in Confirmed
  BY <1>2, <1>5 DEF Confirmed, Acknowledged
<1>7. Confirmed' = Confirmed
  BY <1>6 DEF Confirmed
<1> QED BY <1>4, <1>7 DEF StartSending, specialVars

LEMMA BackoffMaps ==
  ASSUME SnapshotInv, NEW v \in Versions, BackoffElapses(v)
  PROVE  UNCHANGED << LedgerContents, accepted, Confirmed >>
<1>1. PICK a \in Attempts : a = LatestAttempt(v) /\ Opened(v, a)
  BY LatestAttemptIs DEF BackoffElapses, SnapshotInv
<1>2. delivery[v][a] \in Delivery
  BY <1>1 DEF SnapshotInv, TypeOK, Opened
<1>3. PICK row \in Delivery :
        /\ row.status = delivery[v][a].status
        /\ delivery' = [delivery EXCEPT ![v][a] = row]
  <2>1. /\ [delivery[v][a] EXCEPT !.waiting = FALSE] \in Delivery
        /\ [delivery[v][a] EXCEPT !.waiting = FALSE].status = delivery[v][a].status
    BY <1>2 DEF Delivery
  <2>2. delivery' = [delivery EXCEPT ![v][a] = [delivery[v][a] EXCEPT !.waiting = FALSE]]
    BY <1>1 DEF BackoffElapses, SnapshotInv, TypeOK
  <2> QED BY <2>1, <2>2
<1>4. /\ delivery'[v][a] = row
      /\ \A w \in Versions, b \in Attempts : w # v \/ b # a => delivery'[w][b] = delivery[w][b]
      /\ \A w \in Versions, b \in Attempts : Opened(w, b)' <=> Opened(w, b) \/ (w = v /\ b = a)
  BY <1>3, StoreDeliveryIs DEF SnapshotInv
<1>5. \A w \in Versions : w \in Confirmed' <=> w \in Confirmed
  BY <1>1, <1>3, <1>4 DEF Confirmed
<1>6. Confirmed' = Confirmed
  BY <1>5 DEF Confirmed
<1>7. UNCHANGED << batch, accepted >>
  BY DEF BackoffElapses, specialVars
<1> QED BY <1>6, <1>7 DEF LedgerContents, PreparedVersions, Prepared

LEMMA LedgerStep == SnapshotInv /\ [Next]_vars => [Ledger!Next]_(Ledger!ledgerVars)
<1> SUFFICES ASSUME SnapshotInv, [Next]_vars
             PROVE  Ledger!Next \/ UNCHANGED << LedgerContents, accepted, Confirmed >>
  BY LedgerIs DEF Ledger!ledgerVars, LedgerContents, PreparedVersions, Confirmed
<1>1. ASSUME UNCHANGED << batch, delivery, accepted >>
      PROVE  UNCHANGED << LedgerContents, accepted, Confirmed >>
  BY <1>1 DEF LedgerContents, PreparedVersions, Confirmed, Prepared, Opened
<1>2. CASE UNCHANGED vars
  BY <1>1, <1>2 DEF vars, tableVars, specialVars
<1>3. ASSUME NEW l \in Leaves, RecordPaperApproval(l) \/ VoidLeave(l)
      PROVE  UNCHANGED << LedgerContents, accepted, Confirmed >>
  BY <1>1, <1>3 DEF RecordPaperApproval, VoidLeave, tableVars, specialVars
<1>4. ASSUME Tick PROVE UNCHANGED << LedgerContents, accepted, Confirmed >>
  BY <1>1, <1>4 DEF Tick, tableVars, specialVars
<1>5. ASSUME NEW c \in Calls,
             \/ \E cutoff \in Cutoffs : BeginPrepare(c, cutoff)
             \/ FindExisting(c) \/ ChooseVersion(c) \/ AbandonCall(c)
             \/ \E v \in Versions : BeginDeliver(c, v)
      PROVE  UNCHANGED << LedgerContents, accepted, Confirmed >>
  BY <1>1, <1>5 DEF BeginPrepare, FindExisting, ChooseVersion, AbandonCall, BeginDeliver,
                    tableVars, specialVars
<1>6. ASSUME NEW c \in Calls, InsertBatch(c) PROVE Ledger!Next
  BY <1>6, InsertAddsVersion DEF Ledger!Next
<1>7. ASSUME NEW c \in Calls, RecordAcknowledgement(c) PROVE Ledger!Next
  BY <1>7, AcknowledgementMaps DEF Ledger!Next, LedgerContents, PreparedVersions
<1>8. ASSUME SpecialNext
      PROVE  Ledger!Next \/ UNCHANGED << LedgerContents, accepted, Confirmed >>
  BY <1>8, SpecialMaps DEF Ledger!Next, LedgerContents, PreparedVersions
<1> QED BY <1>2, <1>3, <1>4, <1>5, <1>6, <1>7, <1>8, FailureMaps, StartMaps, BackoffMaps DEF Next

(* The detailed component implements the abstract ledger: versions without   *)
(* gap, no content twice, nothing rewritten; applied in ascending order, and *)
(* confirmed only what was applied.                                          *)
THEOREM LedgerImplemented == Spec => RefinesLedger
  BY LedgerInit, LedgerStep, SpecInv, PTL DEF Spec, RefinesLedger, Ledger!Spec
=============================================================================
