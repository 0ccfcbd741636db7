------------------------------ MODULE PeopleSync ------------------------------
(***************************************************************************)
(* PeopleSyncService.syncFromSpecial: One Data's tenants, employees,       *)
(* memberships and source users are made to follow Special-Allowances.     *)
(*                                                                         *)
(* A run inserts its row, reads three lists from Special one beside the    *)
(* other, refuses lists that do not fit together, and applies them in one  *)
(* transaction; then it settles its row by a statement of its own.         *)
(*                                                                         *)
(* MySQL reads in a transaction from the state at its first read, and      *)
(* writes to the rows as they are now.  All runs update the affiliation's  *)
(* row first, so that their writes come one after the other, but a run     *)
(* that waited there reads what was before it waited: OpenTransaction      *)
(* takes the view, Apply does the rest.                                    *)
(*                                                                         *)
(* Names, positions and addresses are left out.  Special is external.      *)
(***************************************************************************)
EXTENDS Integers, Sequences, FiniteSets

CONSTANTS
  Runs,        \* calls of syncFromSpecial
  Earlier,     \* the runs before the first of them
  Employees,   \* source ids of employees
  Centers,     \* source ids of health centers, each a tenant
  Accounts,    \* source ids of users
  NoOne,       \* a user's employee or health center that is null
  Sources,     \* what Special's lists may hold
  Beginnings,  \* what One Data's tables may hold before the first run
  LastDay,     \* bound: the last day of the model
  MaxChanges   \* bound: how often Special's data change

Open == 0      \* effectiveTo that is null
NoDate == 0    \* neither healthCenterStartDate nor startDate is known
Days == 1 .. LastDay

(* What Special lists: the ids are unique in each list, or the answer is     *)
(* refused (FailToFetch).                                                    *)
SpecialEmployee == [ center : Centers, from : Days \cup {NoDate}, active : BOOLEAN ]
SpecialUser ==
  [ center : Centers \cup {NoOne}, employee : Employees \cup {NoOne}, active : BOOLEAN ]
Lists(ids, rows) == UNION { [ listed -> rows ] : listed \in SUBSET ids }
People == Lists(Employees, SpecialEmployee)
Users == Lists(Accounts, SpecialUser)
Snapshot == [ centers : SUBSET Centers, people : People, users : Users ]

(* Rows by source id.  UNLINKED and FOREIGN rows have the configured id or   *)
(* code, and no source system or another one.                                *)
RowStatuses == { "NONE", "ACTIVE", "INACTIVE" }
AffiliationStatuses == { "NONE", "UNLINKED", "FOREIGN", "LINKED" }
TenantStatuses == RowStatuses \cup { "UNLINKED", "FOREIGN" }

(* by is not a column: the run that created the row; it stands for the id,   *)
(* because a run creates at most one membership of an employee.              *)
EmploymentMembership ==
  [ employee : Employees, center : Centers, from : Days, to : Days \cup {Open},
    by : Runs \cup Earlier ]
Database ==
  [ affiliation : AffiliationStatuses, tenant : [ Centers -> TenantStatuses ],
    employee : [ Employees -> RowStatuses ], account : [ Accounts -> RowStatuses ],
    membership : SUBSET EmploymentMembership ]

SameRow(m, n) == m.employee = n.employee /\ m.by = n.by
EndsBefore(m, n) == m.to # Open /\ m.to < n.from
OneId(rows) == \A m, n \in rows : SameRow(m, n) => m = n
InOrder(rows) ==
  \A m, n \in rows : m.employee = n.employee /\ m # n => EndsBefore(m, n) \/ EndsBefore(n, m)
GoesOn(rows) == \A m \in rows : \E n \in rows : n.employee = m.employee /\ n.to = Open

(* A run: not in progress; on its way to the catch block; reading the lists  *)
(* (got: those that were answered); with the view of its transaction (late:  *)
(* another run has committed since); or applied, with its two counts.        *)
Parts == { "centers", "people", "users" }
Idle == [ step |-> "idle" ]
Failing == [ step |-> "failing" ]
Applying == [ step : {"applying"}, lists : Snapshot, view : Database, late : BOOLEAN ]
Applied == [ step : {"applied"}, created : Nat, closed : Nat ]

LogStatuses == { "NONE", "RUNNING", "SUCCEEDED", "FAILED" }
Commit == [ run : Runs, lists : Snapshot, late : BOOLEAN ]

(* Memberships are written here and by the seed, which leaves one open: the  *)
(* tables begin as the earlier runs have left them.                          *)
ASSUME SyncAssumption ==
  /\ NoOne \notin Employees \cup Centers
  /\ IsFiniteSet(Employees)
  /\ Earlier \cap Runs = {}
  /\ Sources \subseteq Snapshot
  /\ Beginnings \subseteq Database
  /\ \A d \in Beginnings :
       /\ IsFiniteSet(d.membership) /\ \A m \in d.membership : m.by \in Earlier
       /\ OneId(d.membership) /\ InOrder(d.membership) /\ GoesOn(d.membership)
  /\ LastDay \in Nat \ {0}
  /\ MaxChanges \in Nat

VARIABLES
  today,     \* the calendar
  source,    \* Special's lists now
  changes,   \* bound: how often they changed
  db,        \* One Data's tables
  log,       \* MasterDataSyncRun.status by run
  report,    \* MasterDataSyncRun.membershipsCreated and membershipsClosed
  call,      \* what each run in progress has read
  commits    \* history: what was applied, in order

sourceVars == << today, source, changes >>
syncVars == << sourceVars, db, log, report, call, commits >>

NoReport == [ created |-> 0, closed |-> 0 ]

SyncInit ==
  /\ today = 1
  /\ source \in Sources
  /\ changes = 0
  /\ db \in Beginnings
  /\ log = [ r \in Runs |-> "NONE" ]
  /\ report = [ r \in Runs |-> NoReport ]
  /\ call = [ r \in Runs |-> Idle ]
  /\ commits = << >>

At(r, step) == call[r].step = step
Proceed(r, next) == call' = [ call EXCEPT ![r] = next ]
GoFailing(r) == Proceed(r, Failing)

(***************************************************************************)
(* The world: days pass, Special's data change.                            *)
(***************************************************************************)
NextDay ==
  /\ today < LastDay
  /\ today' = today + 1
  /\ UNCHANGED << source, changes, db, log, report, call, commits >>

SourceChanges ==
  /\ changes < MaxChanges
  /\ changes' = changes + 1
  /\ source' \in Sources \ {source}
  /\ UNCHANGED << today, db, log, report, call, commits >>

(***************************************************************************)
(* syncFromSpecial up to the transaction.  Callers without the capability  *)
(* are refused before anything is written.                                 *)
(***************************************************************************)

(* Mutant: a run may be started again under its id.                          *)
BeginAgain(r) ==
  /\ At(r, "idle")
  /\ log' = [ log EXCEPT ![r] = "RUNNING" ]
  /\ Proceed(r, [ step |-> "fetching", got |-> << >> ])
  /\ UNCHANGED << sourceVars, db, report, commits >>

Begin(r) ==
  /\ log[r] = "NONE"
  /\ log' = [ log EXCEPT ![r] = "RUNNING" ]
  /\ Proceed(r, [ step |-> "fetching", got |-> << >> ])
  /\ UNCHANGED << sourceVars, db, report, commits >>

(* fetchSnapshot: three requests under way together, answered in any order.  *)
Fetch(r, part) ==
  /\ At(r, "fetching")
  /\ part \notin DOMAIN call[r].got
  /\ call' = [ call EXCEPT ![r].got =
                 [ p \in DOMAIN @ \cup {part} |-> IF p = part THEN source[p] ELSE @[p] ] ]
  /\ UNCHANGED << sourceVars, db, log, report, commits >>

(* No configuration, no answer in time, an HTTP error, or rows that parse or *)
(* validate to an error by themselves (a duplicate id among them).           *)
FailToFetch(r) ==
  /\ At(r, "fetching")
  /\ GoFailing(r)
  /\ UNCHANGED << sourceVars, db, log, report, commits >>

(* Mutant: what the lists refer to is not looked up.                         *)
FitsTogetherAlways(s) == s.centers # {}

(* validateSnapshot: the lists were read at different moments.               *)
FitsTogether(s) ==
  /\ s.centers # {}
  /\ \A e \in DOMAIN s.people : s.people[e].center \in s.centers
  /\ \A a \in DOMAIN s.users :
       /\ s.users[a].center \in s.centers \cup {NoOne}
       /\ s.users[a].employee \in DOMAIN s.people \cup {NoOne}

Answered(r) == DOMAIN call[r].got = Parts

RefuseLists(r) ==
  /\ At(r, "fetching") /\ Answered(r)
  /\ ~FitsTogether(call[r].got)
  /\ GoFailing(r)
  /\ UNCHANGED << sourceVars, db, log, report, commits >>

OpenTransaction(r) ==
  /\ At(r, "fetching") /\ Answered(r)
  /\ FitsTogether(call[r].got)
  /\ Proceed(r, [ step |-> "applying", lists |-> call[r].got, view |-> db, late |-> FALSE ])
  /\ UNCHANGED << sourceVars, db, log, report, commits >>

(***************************************************************************)
(* syncMembership, for every employee that is listed; k is the call.       *)
(***************************************************************************)
EffectiveFrom(k, e) ==
  LET known == k.lists.people[e].from
  IN  IF known = NoDate THEN today ELSE known

OpenRows(k, e) == { m \in k.view.membership : m.employee = e /\ m.to = Open }

(* Mutant: a membership is found again only under the date it began with.    *)
MatchingOfDate(k, e) ==
  { m \in OpenRows(k, e) :
      m.center = k.lists.people[e].center /\ m.from = EffectiveFrom(k, e) }

(* The open row of the same tenant that began first; of two that began       *)
(* together either, which makes no difference.                               *)
Matching(k, e) ==
  { m \in OpenRows(k, e) :
      /\ m.center = k.lists.people[e].center
      /\ \A other \in OpenRows(k, e) : other.center = m.center => m.from <= other.from }
Kept(k, e) == IF Matching(k, e) = {} THEN {} ELSE { CHOOSE m \in Matching(k, e) : TRUE }

(* All other open rows end the day before.                                   *)
RowsToClose(k) == UNION { OpenRows(k, e) \ Kept(k, e) : e \in DOMAIN k.lists.people }

(* Mutant: a transfer on any day is accepted.                                *)
ConflictNever(k) == FALSE

(* A transfer that would end a row before it began refuses everything.       *)
Conflict(k) == \E m \in RowsToClose(k) : EffectiveFrom(k, m.employee) - 1 < m.from

NewRow(r, k, e) ==
  [ employee |-> e, center |-> k.lists.people[e].center, from |-> EffectiveFrom(k, e),
    to |-> Open, by |-> r ]

(* A membership that is kept keeps its dates, whatever the list says now.    *)
Newcomers(k) == { e \in DOMAIN k.lists.people : Matching(k, e) = {} }

(* Updates name rows by id and reach them whatever they have become.         *)
CloseRow(k, m) ==
  IF \E n \in RowsToClose(k) : SameRow(m, n)
  THEN [ m EXCEPT !.to = EffectiveFrom(k, m.employee) - 1 ]
  ELSE m

(* Mutant: a row that has ended is taken away.                               *)
MembershipsPurged(r, k) ==
  { CloseRow(k, m) : m \in { n \in db.membership : n.to = Open } }
    \cup { NewRow(r, k, e) : e \in Newcomers(k) }

Memberships(r, k) ==
  { CloseRow(k, m) : m \in db.membership } \cup { NewRow(r, k, e) : e \in Newcomers(k) }

(***************************************************************************)
(* upsertTenant, upsertEmployee, upsertSourceUser and the loops that       *)
(* deactivate what is not listed any more.                                 *)
(***************************************************************************)
Follow(now, seen, listed) ==
  [ i \in DOMAIN now |->
      IF i \in DOMAIN listed THEN (IF listed[i].active THEN "ACTIVE" ELSE "INACTIVE")
      ELSE IF seen[i] = "ACTIVE" THEN "INACTIVE" ELSE now[i] ]

(* Mutant: tenants that are not listed any more stay active.                 *)
FollowCentersListed(k) ==
  [ c \in Centers |-> IF c \in k.lists.centers THEN "ACTIVE" ELSE db.tenant[c] ]

(* A listed tenant may be linked by its code first.                          *)
FollowCenters(k) ==
  [ c \in Centers |->
      IF c \in k.lists.centers THEN "ACTIVE"
      ELSE IF k.view.tenant[c] = "ACTIVE" THEN "INACTIVE" ELSE db.tenant[c] ]

(* Rows with the configured id or code that belong to another system.        *)
Foreign(k) ==
  \/ k.view.affiliation = "FOREIGN"
  \/ \E c \in k.lists.centers : k.view.tenant[c] = "FOREIGN"

(* A row that the view did not show and that exists now: its insert fails on *)
(* a primary or unique key.                                                  *)
Appeared(k) ==
  LET appeared(old, new) == old = "NONE" /\ new # "NONE"
  IN  \/ appeared(k.view.affiliation, db.affiliation)
      \/ \E c \in k.lists.centers : appeared(k.view.tenant[c], db.tenant[c])
      \/ \E e \in DOMAIN k.lists.people : appeared(k.view.employee[e], db.employee[e])
      \/ \E a \in DOMAIN k.lists.users : appeared(k.view.account[a], db.account[a])

Apply(r) ==
  LET k == call[r]
  IN  /\ At(r, "applying")
      /\ ~Foreign(k) /\ ~Appeared(k) /\ ~Conflict(k)
      /\ db' = [ affiliation |-> "LINKED",
                 tenant |-> FollowCenters(k),
                 employee |-> Follow(db.employee, k.view.employee, k.lists.people),
                 account |-> Follow(db.account, k.view.account, k.lists.users),
                 membership |-> Memberships(r, k) ]
      /\ commits' = Append(commits, [ run |-> r, lists |-> k.lists, late |-> k.late ])
      /\ call' = [ c \in Runs |->
           IF c = r THEN [ step |-> "applied", created |-> Cardinality(Newcomers(k)),
                           closed |-> Cardinality(RowsToClose(k)) ]
           ELSE IF At(c, "applying") THEN [ call[c] EXCEPT !.late = TRUE ]
           ELSE call[c] ]
      /\ UNCHANGED << sourceVars, log, report >>

(* Mutant: the memberships are written outside the transaction.              *)
RollBackPartly(r) ==
  /\ At(r, "applying")
  /\ ~Foreign(call[r]) /\ ~Appeared(call[r]) /\ ~Conflict(call[r])
  /\ db' = [ db EXCEPT !.membership = Memberships(r, call[r]) ]
  /\ GoFailing(r)
  /\ UNCHANGED << sourceVars, log, report, commits >>

(* Refused, or the transaction failed or timed out while it waited: nothing  *)
(* of it stays.                                                              *)
RollBack(r) ==
  /\ At(r, "applying")
  /\ GoFailing(r)
  /\ UNCHANGED << sourceVars, db, log, report, commits >>

(***************************************************************************)
(* The row of the run.  When the update to SUCCEEDED fails, the catch      *)
(* block notes a failure although the data were applied.                   *)
(***************************************************************************)
Succeed(r) ==
  /\ At(r, "applied")
  /\ log' = [ log EXCEPT ![r] = "SUCCEEDED" ]
  /\ report' = [ report EXCEPT ![r] = [ created |-> call[r].created, closed |-> call[r].closed ] ]
  /\ Proceed(r, Idle)
  /\ UNCHANGED << sourceVars, db, commits >>

FailToReport(r) ==
  /\ At(r, "applied")
  /\ GoFailing(r)
  /\ UNCHANGED << sourceVars, db, log, report, commits >>

Fail(r) ==
  /\ At(r, "failing")
  /\ log' = [ log EXCEPT ![r] = "FAILED" ]
  /\ Proceed(r, Idle)
  /\ UNCHANGED << sourceVars, db, report, commits >>

(* The process dies, or the last update fails too: the row stays RUNNING.    *)
Vanish(r) ==
  /\ call[r] # Idle
  /\ Proceed(r, Idle)
  /\ UNCHANGED << sourceVars, db, log, report, commits >>

SyncStep(r) ==
  \/ Begin(r)
  \/ \E part \in Parts : Fetch(r, part)
  \/ FailToFetch(r) \/ RefuseLists(r) \/ OpenTransaction(r)
  \/ Apply(r) \/ RollBack(r)
  \/ Succeed(r) \/ FailToReport(r) \/ Fail(r) \/ Vanish(r)

SyncNext == NextDay \/ SourceChanges \/ \E r \in Runs : SyncStep(r)
SyncSpec == SyncInit /\ [][SyncNext]_syncVars

(***************************************************************************)
(* Properties.                                                             *)
(***************************************************************************)
(* Types; and the one thing the model leans on: by stands for the id.        *)
SyncTypeOK ==
  /\ today \in Days
  /\ source \in Snapshot
  /\ changes \in 0 .. MaxChanges
  /\ db \in Database
  /\ OneId(db.membership)
  /\ log \in [ Runs -> LogStatuses ]
  /\ report \in [ Runs -> [ created : Nat, closed : Nat ] ]
  /\ \A r \in Runs :
       \/ call[r] \in { Idle, Failing } \cup Applying \cup Applied
       \/ /\ call[r] = [ step |-> "fetching", got |-> call[r].got ]
          /\ DOMAIN call[r].got \subseteq Parts
          /\ \E s \in Snapshot : \A part \in DOMAIN call[r].got : call[r].got[part] = s[part]
  /\ commits \in Seq(Commit)

(* An employee whose memberships a run wrote that did not see the latest.    *)
Raced(e) == \E i \in DOMAIN commits : commits[i].late /\ e \in DOMAIN commits[i].lists.people

(* syncMembership: the memberships of one employee follow each other without *)
(* overlap, and at most the last is open, unless a run wrote them that read  *)
(* the tables before another run's commit and wrote them after it.           *)
MembershipsInOrder ==
  InOrder({ m \in db.membership : ~Raced(m.employee) })

(* The monitor may be believed: a run that is reported as SUCCEEDED was       *)
(* applied, once, and created as many memberships as it says; a run that was *)
(* not applied left no trace, however it ended (Blueprint v1.11).            *)
Applications(r) == { i \in DOMAIN commits : commits[i].run = r }
Created(r) == { m \in db.membership : m.by = r }
ReportsTrue ==
  \A r \in Runs :
    /\ Applications(r) = {} => Created(r) = {}
    /\ log[r] = "SUCCEEDED" =>
         Cardinality(Applications(r)) = 1 /\ report[r].created = Cardinality(Created(r))

(* applySnapshot: while no other run commits, the tables say what the last   *)
(* run's lists said: who and what is active, and where everybody works.  A   *)
(* run with an outdated view does not achieve that.                          *)
Last == commits[Len(commits)]
LastCommitStands ==
  commits # << >> /\ ~Last.late =>
    LET s == Last.lists
    IN  /\ \A c \in Centers : db.tenant[c] = "ACTIVE" <=> c \in s.centers
        /\ \A e \in Employees :
             db.employee[e] = "ACTIVE" <=> e \in DOMAIN s.people /\ s.people[e].active
        /\ \A a \in Accounts :
             db.account[a] = "ACTIVE" <=> a \in DOMAIN s.users /\ s.users[a].active
        /\ \A e \in DOMAIN s.people :
             /\ db.tenant[s.people[e].center] = "ACTIVE"
             /\ \E m \in db.membership :
                  m.employee = e /\ m.to = Open /\ m.center = s.people[e].center

(* A transfer closes a row and adds one (Blueprint v1.11): no membership is  *)
(* lost, moved or reopened, and only a run with an outdated view changes the *)
(* day on which one ended.                                                   *)
KeepsHistory ==
  \A m \in db.membership : \E n \in db'.membership :
    /\ SameRow(m, n) /\ n.center = m.center /\ n.from = m.from
    /\ m.to # Open => n.to = m.to \/ (n.to # Open /\ Last'.late)
HistoryKept == [][KeepsHistory]_syncVars

(* A repeated run creates and closes nothing (Blueprint v1.20): applying the *)
(* lists that are in force changes no membership of an employee that was not *)
(* raced, whatever day it is.                                                *)
RepeatsIdly ==
  commits' # commits /\ commits # << >> /\ ~Last.late /\ ~Last'.late /\ Last'.lists = Last.lists
  => \A e \in Employees : ~Raced(e) =>
       { m \in db'.membership : m.employee = e } = { m \in db.membership : m.employee = e }
RepeatedSyncIdle == [][RepeatsIdly]_syncVars
=============================================================================
