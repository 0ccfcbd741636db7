---------------------------- MODULE PeopleSyncProofs ----------------------------
(***************************************************************************)
(* Theorems about PeopleSync, for any runs, employees, health centers,     *)
(* accounts and lists of Special, and any tables to begin with.            *)
(*                                                                         *)
(* A run that no other run has overtaken sees the tables as they are       *)
(* (CallsHold); a run that has not applied its lists has left no row, and  *)
(* one that has knows how many (RunsCounted); an employee who was never    *)
(* raced has an open membership, once there is any (MembershipsGoOn).      *)
(***************************************************************************)
EXTENDS PeopleSync, FiniteSetTheorems, SequenceTheorems, TLAPS

WorldHolds == today \in Days /\ source \in Snapshot /\ changes \in 0 .. MaxChanges

TablesHold == db \in Database /\ IsFiniteSet(db.membership) /\ OneId(db.membership)

LogsHold ==
  /\ log \in [ Runs -> LogStatuses ]
  /\ report \in [ Runs -> [ created : Nat, closed : Nat ] ]
  /\ commits \in Seq(Commit)

(* The lists that were answered, part by part.                               *)
FetchingHolds(k) ==
  /\ k = [ step |-> "fetching", got |-> k.got ]
  /\ DOMAIN k.got \subseteq Parts
  /\ k.got = [ part \in DOMAIN k.got |-> k.got[part] ]
  /\ "centers" \in DOMAIN k.got => k.got["centers"] \in SUBSET Centers
  /\ "people" \in DOMAIN k.got => k.got["people"] \in People
  /\ "users" \in DOMAIN k.got => k.got["users"] \in Users

(* The lists of a transaction fit together, and its view is not outdated     *)
(* before another run commits.                                               *)
ApplyingHolds(k, tables) ==
  /\ k \in Applying
  /\ FitsTogether(k.lists)
  /\ IsFiniteSet(k.view.membership)
  /\ ~k.late => k.view = tables

CallsHold ==
  /\ call = [ r \in Runs |-> call[r] ]
  /\ \A r \in Runs :
       call[r] \in { Idle, Failing } \cup Applied \/ ApplyingHolds(call[r], db) \/ FetchingHolds(call[r])

RunsCounted ==
  \A r \in Runs :
    /\ call[r] # Idle => log[r] = "RUNNING"
    /\ log[r] = "NONE" \/ call[r].step \in { "fetching", "applying" } => Applications(r) = {}
    /\ call[r].step = "applied" =>
         /\ Cardinality(Applications(r)) = 1
         /\ call[r].created = Cardinality(Created(r))

MembershipsGoOn == GoesOn({ m \in db.membership : ~Raced(m.employee) })

SyncInv ==
  /\ WorldHolds /\ TablesHold /\ LogsHold /\ CallsHold /\ RunsCounted /\ ReportsTrue
  /\ LastCommitStands /\ MembershipsInOrder /\ MembershipsGoOn

(***************************************************************************)
(* What the lists of a run ask for.                                        *)
(***************************************************************************)
LEMMA ListsAre ==
  ASSUME NEW ids, NEW rows, NEW listed \in Lists(ids, rows)
  PROVE  DOMAIN listed \subseteq ids /\ \A i \in DOMAIN listed : listed[i] \in rows
BY DEF Lists

LEMMA ListedPeople ==
  ASSUME NEW k \in Applying
  PROVE  /\ DOMAIN k.lists.people \subseteq Employees
         /\ \A e \in DOMAIN k.lists.people :
              /\ k.lists.people[e].center \in Centers
              /\ k.lists.people[e].from \in Days \cup {NoDate}
              /\ k.lists.people[e].active \in BOOLEAN
<1>1. k.lists.people \in Lists(Employees, SpecialEmployee)
  BY DEF Applying, Snapshot, People
<1>2. /\ DOMAIN k.lists.people \subseteq Employees
      /\ \A e \in DOMAIN k.lists.people : k.lists.people[e] \in SpecialEmployee
  BY <1>1, ListsAre
<1> QED BY <1>2 DEF SpecialEmployee

(* Days are the positive numbers up to a bound, and an open end is no day.   *)
LEMMA DaysAre == Open \notin Days /\ Days \subseteq Nat
BY SyncAssumption DEF Open, Days

LEMMA EffectiveFromIs ==
  ASSUME today \in Days, NEW k \in Applying, NEW e \in DOMAIN k.lists.people
  PROVE  EffectiveFrom(k, e) \in Days
BY ListedPeople, DaysAre DEF EffectiveFrom, NoDate

LEMMA NewRowIs ==
  ASSUME today \in Days, NEW k \in Applying, NEW e \in DOMAIN k.lists.people, NEW r \in Runs
  PROVE  /\ NewRow(r, k, e) \in EmploymentMembership
         /\ NewRow(r, k, e).employee = e /\ NewRow(r, k, e).by = r
         /\ NewRow(r, k, e).to = Open /\ NewRow(r, k, e).from = EffectiveFrom(k, e)
         /\ NewRow(r, k, e).center = k.lists.people[e].center
<1>1. e \in Employees /\ k.lists.people[e].center \in Centers
  BY ListedPeople
<1>2. EffectiveFrom(k, e) \in Days
  BY EffectiveFromIs
<1> QED BY <1>1, <1>2 DEF NewRow, EmploymentMembership

(* A row to be closed is an open row of somebody who is listed, and ends on  *)
(* or after the day on which it began.                                       *)
LEMMA RowToCloseIs ==
  ASSUME today \in Days, NEW k \in Applying, ~Conflict(k), NEW m \in RowsToClose(k)
  PROVE  /\ m \in k.view.membership /\ m \in EmploymentMembership
         /\ m.employee \in DOMAIN k.lists.people /\ m.to = Open
         /\ m \notin Kept(k, m.employee)
         /\ EffectiveFrom(k, m.employee) - 1 \in Days
         /\ EffectiveFrom(k, m.employee) - 1 >= m.from
<1>1. PICK e \in DOMAIN k.lists.people : m \in OpenRows(k, e) \ Kept(k, e)
  BY DEF RowsToClose
<1>2. /\ m \in k.view.membership /\ m.employee = e /\ m.to = Open
      /\ m \notin Kept(k, m.employee)
  BY <1>1 DEF OpenRows
<1>3. m \in EmploymentMembership
  BY <1>2 DEF Applying, Database
<1>4. m.from \in Days /\ EffectiveFrom(k, e) \in Days
  BY <1>3, EffectiveFromIs DEF EmploymentMembership
<1>5. ~(EffectiveFrom(k, e) - 1 < m.from)
  BY <1>2 DEF Conflict
<1>6. EffectiveFrom(k, e) - 1 \in Days /\ EffectiveFrom(k, e) - 1 >= m.from
  BY <1>4, <1>5, SyncAssumption DEF Days
<1> QED BY <1>2, <1>3, <1>6

(* Closing changes the end of a row and nothing else.                        *)
LEMMA CloseRowIs ==
  ASSUME today \in Days, NEW k \in Applying, ~Conflict(k), NEW m \in EmploymentMembership
  PROVE  /\ CloseRow(k, m) \in EmploymentMembership
         /\ CloseRow(k, m).employee = m.employee /\ CloseRow(k, m).by = m.by
         /\ CloseRow(k, m).center = m.center /\ CloseRow(k, m).from = m.from
         /\ \/ CloseRow(k, m) = m /\ \A n \in RowsToClose(k) : ~SameRow(m, n)
            \/ /\ \E n \in RowsToClose(k) : SameRow(m, n)
               /\ CloseRow(k, m).to = EffectiveFrom(k, m.employee) - 1
               /\ CloseRow(k, m).to \in Days
<1>1. CASE \A n \in RowsToClose(k) : ~SameRow(m, n)
  BY <1>1 DEF CloseRow
<1>2. ASSUME NEW n \in RowsToClose(k), SameRow(m, n)
      PROVE  /\ CloseRow(k, m) \in EmploymentMembership
             /\ CloseRow(k, m).employee = m.employee /\ CloseRow(k, m).by = m.by
             /\ CloseRow(k, m).center = m.center /\ CloseRow(k, m).from = m.from
             /\ CloseRow(k, m).to = EffectiveFrom(k, m.employee) - 1
             /\ CloseRow(k, m).to \in Days
  <2>1. PICK day \in Days : day = EffectiveFrom(k, m.employee) - 1
    BY <1>2, RowToCloseIs DEF SameRow
  <2>2. CloseRow(k, m) = [ m EXCEPT !.to = day ]
    BY <1>2, <2>1 DEF CloseRow
  <2> QED BY <2>1, <2>2 DEF EmploymentMembership
<1> QED BY <1>1, <1>2

LEMMA RowsAre ==
  ASSUME NEW d \in Database, NEW m \in d.membership
  PROVE  m \in EmploymentMembership
BY DEF Database

(* Two rows are the same after closing only if they were before.             *)
LEMMA CloseRowKeepsIds ==
  ASSUME today \in Days, NEW k \in Applying, ~Conflict(k), OneId(db.membership), db \in Database,
         NEW m \in db.membership, NEW n \in db.membership, SameRow(CloseRow(k, m), CloseRow(k, n))
  PROVE  m = n
<1>1. SameRow(m, n)
  BY CloseRowIs, RowsAre DEF SameRow
<1> QED BY <1>1 DEF OneId


(***************************************************************************)
(* The table of memberships after a run has written it.                    *)
(***************************************************************************)
LEMMA ImageIs ==
  ASSUME NEW S, IsFiniteSet(S), NEW T, NEW f \in [ S -> T ],
         \A t \in T : \E x \in S : f[x] = t,
         \A x, y \in S : f[x] = f[y] => x = y
  PROVE  IsFiniteSet(T) /\ Cardinality(T) = Cardinality(S)
<1>1. f \in Bijection(S, T)
  BY DEF Bijection, Injection, Surjection, IsInjective
<1>2. ExistsBijection(S, T)
  BY <1>1 DEF ExistsBijection
<1> QED BY <1>2, FS_Bijection

LEMMA FiniteImage ==
  ASSUME NEW S, IsFiniteSet(S), NEW T, NEW f \in [ S -> T ],
         \A t \in T : \E x \in S : f[x] = t
  PROVE  IsFiniteSet(T)
<1>1. f \in Surjection(S, T)
  BY DEF Surjection
<1> QED BY <1>1, FS_Surjection

(* Rows that exist end at most earlier; rows that are new are the run's own. *)
LEMMA MembershipsAre ==
  ASSUME NEW r \in Runs, NEW k \in Applying, NEW n \in Memberships(r, k)
  PROVE  \/ \E m \in db.membership : n = CloseRow(k, m)
         \/ \E e \in Newcomers(k) : n = NewRow(r, k, e)
BY DEF Memberships

LEMMA NewcomersAre ==
  ASSUME NEW k \in Applying
  PROVE  /\ Newcomers(k) \subseteq DOMAIN k.lists.people
         /\ IsFiniteSet(Newcomers(k))
<1>1. Newcomers(k) \subseteq DOMAIN k.lists.people
  BY DEF Newcomers
<1>2. Newcomers(k) \in SUBSET Employees
  BY <1>1, ListedPeople
<1> QED BY <1>1, <1>2, SyncAssumption, FS_Subset

LEMMA MembershipsTyped ==
  ASSUME today \in Days, db \in Database, NEW r \in Runs, NEW k \in Applying, ~Conflict(k)
  PROVE  Memberships(r, k) \subseteq EmploymentMembership
<1> SUFFICES ASSUME NEW n \in Memberships(r, k) PROVE n \in EmploymentMembership
  OBVIOUS
<1>1. ASSUME NEW m \in db.membership, n = CloseRow(k, m) PROVE n \in EmploymentMembership
  BY <1>1, RowsAre, CloseRowIs
<1>2. ASSUME NEW e \in Newcomers(k), n = NewRow(r, k, e) PROVE n \in EmploymentMembership
  BY <1>2, NewcomersAre, NewRowIs
<1> QED BY <1>1, <1>2, MembershipsAre

LEMMA MembershipsOneId ==
  ASSUME today \in Days, db \in Database, OneId(db.membership),
         NEW r \in Runs, NEW k \in Applying, ~Conflict(k), Created(r) = {}
  PROVE  OneId(Memberships(r, k))
<1> SUFFICES ASSUME NEW m \in Memberships(r, k), NEW n \in Memberships(r, k), SameRow(m, n)
             PROVE  m = n
  BY DEF OneId
<1>1. \A x \in db.membership : CloseRow(k, x).by # r
  <2> SUFFICES ASSUME NEW x \in db.membership PROVE CloseRow(k, x).by # r
    OBVIOUS
  <2>1. x.by # r
    BY DEF Created
  <2> QED BY <2>1, RowsAre, CloseRowIs
<1>2. \A e \in Newcomers(k) : NewRow(r, k, e).by = r /\ NewRow(r, k, e).employee = e
  BY NewcomersAre, NewRowIs
<1>3. m.by = n.by
  BY DEF SameRow
<1>4. CASE m.by = r
  <2>1. PICK e \in Newcomers(k) : m = NewRow(r, k, e)
    BY <1>1, <1>4, MembershipsAre
  <2>2. PICK f \in Newcomers(k) : n = NewRow(r, k, f)
    BY <1>1, <1>4, <1>3, MembershipsAre
  <2> QED BY <1>2, <2>1, <2>2 DEF SameRow
<1>5. CASE m.by # r
  <2>1. PICK x \in db.membership : m = CloseRow(k, x)
    BY <1>2, <1>5, MembershipsAre
  <2>2. PICK y \in db.membership : n = CloseRow(k, y)
    BY <1>2, <1>5, <1>3, MembershipsAre
  <2>3. x = y
    BY <2>1, <2>2, CloseRowKeepsIds
  <2> QED BY <2>1, <2>2, <2>3
<1> QED BY <1>4, <1>5

LEMMA MembershipsFinite ==
  ASSUME IsFiniteSet(db.membership), NEW r \in Runs, NEW k \in Applying
  PROVE  IsFiniteSet(Memberships(r, k))
<1> DEFINE closed == { CloseRow(k, m) : m \in db.membership }
           new == { NewRow(r, k, e) : e \in Newcomers(k) }
<1>1. IsFiniteSet(closed)
  <2> DEFINE f == [ m \in db.membership |-> CloseRow(k, m) ]
  <2>1. f \in [ db.membership -> closed ] /\ \A n \in closed : \E m \in db.membership : f[m] = n
    OBVIOUS
  <2> HIDE DEF f, closed
  <2> QED BY <2>1, FiniteImage
<1>2. IsFiniteSet(new)
  <2> DEFINE f == [ e \in Newcomers(k) |-> NewRow(r, k, e) ]
  <2>1. f \in [ Newcomers(k) -> new ] /\ \A n \in new : \E e \in Newcomers(k) : f[e] = n
    OBVIOUS
  <2> HIDE DEF f, new
  <2> QED BY <2>1, FiniteImage, NewcomersAre
<1>3. Memberships(r, k) = closed \cup new
  BY DEF Memberships
<1> QED BY <1>1, <1>2, <1>3, FS_Union

(* The rows of another run are as many as before, the run's own as many as   *)
(* it says.                                                                  *)
LEMMA OtherRowsCounted ==
  ASSUME today \in Days, TablesHold, NEW r \in Runs, NEW k \in Applying, ~Conflict(k),
         NEW c \in Runs \ {r}
  PROVE  Cardinality({ n \in Memberships(r, k) : n.by = c }) = Cardinality(Created(c))
<1> DEFINE T == { n \in Memberships(r, k) : n.by = c }
<1> USE DEF TablesHold
<1>1. IsFiniteSet(Created(c))
  BY FS_Subset DEF Created
<1>2. \A m \in Created(c) : CloseRow(k, m) \in T
  <2> SUFFICES ASSUME NEW m \in Created(c) PROVE CloseRow(k, m) \in T
    OBVIOUS
  <2>1. m \in db.membership /\ m.by = c
    BY DEF Created
  <2>2. CloseRow(k, m) \in Memberships(r, k)
    BY <2>1 DEF Memberships
  <2> QED BY <2>1, <2>2, RowsAre, CloseRowIs
<1>3. \A n \in T : \E m \in Created(c) : CloseRow(k, m) = n
  <2> SUFFICES ASSUME NEW n \in T PROVE \E m \in Created(c) : CloseRow(k, m) = n
    OBVIOUS
  <2>1. \A e \in Newcomers(k) : n # NewRow(r, k, e)
    BY NewcomersAre, NewRowIs
  <2>2. PICK m \in db.membership : n = CloseRow(k, m)
    BY <2>1, MembershipsAre
  <2>3. m.by = c
    BY <2>2, RowsAre, CloseRowIs
  <2> QED BY <2>2, <2>3 DEF Created
<1>4. \A m, n \in Created(c) : CloseRow(k, m) = CloseRow(k, n) => m = n
  BY CloseRowKeepsIds DEF Created, SameRow
<1> DEFINE f == [ m \in Created(c) |-> CloseRow(k, m) ]
<1>5. f \in [ Created(c) -> T ]
  BY <1>2
<1>6. /\ \A n \in T : \E m \in Created(c) : f[m] = n
      /\ \A m, n \in Created(c) : f[m] = f[n] => m = n
  BY <1>3, <1>4
<1> HIDE DEF f, T
<1>7. Cardinality(T) = Cardinality(Created(c))
  BY <1>1, <1>5, <1>6, ImageIs
<1> QED BY <1>7 DEF T

LEMMA OwnRowsCounted ==
  ASSUME today \in Days, TablesHold, NEW r \in Runs, NEW k \in Applying, ~Conflict(k),
         Created(r) = {}
  PROVE  Cardinality({ n \in Memberships(r, k) : n.by = r }) = Cardinality(Newcomers(k))
<1> DEFINE T == { n \in Memberships(r, k) : n.by = r }
           f == [ e \in Newcomers(k) |-> NewRow(r, k, e) ]
<1> USE DEF TablesHold
<1>1. \A e \in Newcomers(k) : NewRow(r, k, e).by = r /\ NewRow(r, k, e).employee = e
  BY NewcomersAre, NewRowIs
<1>2. f \in [ Newcomers(k) -> T ]
  BY <1>1 DEF Memberships
<1>3. \A n \in T : \E e \in Newcomers(k) : f[e] = n
  <2> SUFFICES ASSUME NEW n \in T PROVE \E e \in Newcomers(k) : NewRow(r, k, e) = n
    OBVIOUS
  <2>1. \A m \in db.membership : n # CloseRow(k, m)
    <3> SUFFICES ASSUME NEW m \in db.membership PROVE n # CloseRow(k, m)
      OBVIOUS
    <3>1. m.by # r
      BY DEF Created
    <3> QED BY <3>1, RowsAre, CloseRowIs
  <2> QED BY <2>1, MembershipsAre
<1>4. \A d, e \in Newcomers(k) : f[d] = f[e] => d = e
  BY <1>1
<1> HIDE DEF f, T
<1>5. Cardinality(T) = Cardinality(Newcomers(k))
  BY <1>2, <1>3, <1>4, NewcomersAre, ImageIs
<1> QED BY <1>5 DEF T


(***************************************************************************)
(* The beginning, and the steps that write no table.                       *)
(***************************************************************************)
LEMMA SyncInitInv == SyncInit => SyncInv
<1> SUFFICES ASSUME SyncInit PROVE SyncInv
  OBVIOUS
<1>1. /\ db \in Database /\ IsFiniteSet(db.membership) /\ OneId(db.membership)
      /\ InOrder(db.membership) /\ GoesOn(db.membership)
      /\ \A m \in db.membership : m.by \in Earlier
  BY SyncAssumption DEF SyncInit
<1>2. /\ commits = << >> /\ DOMAIN commits = {}
      /\ \A r \in Runs : call[r] = Idle /\ log[r] = "NONE"
  BY DEF SyncInit
<1>3. WorldHolds
  BY SyncAssumption DEF SyncInit, WorldHolds, Days
<1>4. TablesHold
  BY <1>1 DEF TablesHold
<1>5. LogsHold
  BY DEF SyncInit, LogsHold, LogStatuses, NoReport
<1>6. CallsHold
  BY <1>2 DEF SyncInit, CallsHold
<1>7. \A r \in Runs : Applications(r) = {} /\ Created(r) = {}
  BY <1>1, <1>2, SyncAssumption DEF Applications, Created
<1>8. RunsCounted /\ ReportsTrue
  BY <1>2, <1>7 DEF RunsCounted, ReportsTrue, Idle
<1>9. LastCommitStands
  BY <1>2 DEF LastCommitStands
<1>10. MembershipsInOrder /\ MembershipsGoOn
  <2>1. \A e : ~Raced(e)
    BY <1>2 DEF Raced
  <2>2. { m \in db.membership : ~Raced(m.employee) } = db.membership
    BY <2>1
  <2> QED BY <1>1, <2>2 DEF MembershipsInOrder, MembershipsGoOn
<1> QED BY <1>3, <1>4, <1>5, <1>6, <1>8, <1>9, <1>10 DEF SyncInv

LEMMA TablesStay ==
  ASSUME UNCHANGED << db, commits >>
  PROVE  /\ TablesHold => TablesHold'
         /\ LastCommitStands => LastCommitStands'
         /\ MembershipsInOrder => MembershipsInOrder'
         /\ MembershipsGoOn => MembershipsGoOn'
         /\ \A r \in Runs : Applications(r)' = Applications(r) /\ Created(r)' = Created(r)
<1>1. \A e : Raced(e)' <=> Raced(e)
  BY DEF Raced
<1>2. MembershipsInOrder => MembershipsInOrder'
  BY <1>1 DEF MembershipsInOrder
<1>3. MembershipsGoOn => MembershipsGoOn'
  BY <1>1 DEF MembershipsGoOn
<1>4. LastCommitStands => LastCommitStands'
  BY DEF LastCommitStands, Last
<1> QED BY <1>2, <1>3, <1>4 DEF TablesHold, Applications, Created

(* A run takes a step of its own, outside the tables.                        *)
LEMMA CallStepInv ==
  ASSUME SyncInv, UNCHANGED << sourceVars, db, commits >>, NEW r \in Runs, NEW k,
         k \in { Idle, Failing } \/ FetchingHolds(k) \/ ApplyingHolds(k, db),
         call' = [ call EXCEPT ![r] = k ],
         LogsHold', \A c \in Runs \ {r} : log'[c] = log[c] /\ report'[c] = report[c],
         k # Idle => log'[r] = "RUNNING",
         k.step # "applied",
         log'[r] = "NONE" \/ k.step \in { "fetching", "applying" } => Applications(r) = {},
         log'[r] = "SUCCEEDED" =>
           Cardinality(Applications(r)) = 1 /\ report'[r].created = Cardinality(Created(r))
  PROVE  SyncInv'
<1> USE DEF SyncInv
<1>1. /\ TablesHold' /\ LastCommitStands' /\ MembershipsInOrder' /\ MembershipsGoOn'
      /\ \A c \in Runs : Applications(c)' = Applications(c) /\ Created(c)' = Created(c)
  BY TablesStay
<1>2. WorldHolds'
  BY DEF WorldHolds, sourceVars
<1>3. call' = [ c \in Runs |-> call'[c] ] /\ call'[r] = k /\ \A c \in Runs \ {r} : call'[c] = call[c]
  BY DEF CallsHold
<1>4. CallsHold'
  <2>1. \A c \in Runs : \/ call'[c] \in { Idle, Failing } \cup Applied
                         \/ FetchingHolds(call'[c]) \/ ApplyingHolds(call'[c], db')
    BY <1>3 DEF CallsHold
  <2> QED BY <1>3, <2>1 DEF CallsHold
<1>5. RunsCounted'
  BY <1>1, <1>3 DEF RunsCounted
<1>6. ReportsTrue'
  BY <1>1, <1>3 DEF ReportsTrue
<1> QED BY <1>1, <1>2, <1>4, <1>5, <1>6


LEMMA StepsAre ==
  ASSUME SyncInv, NEW r \in Runs
  PROVE  /\ At(r, "fetching") => FetchingHolds(call[r])
         /\ At(r, "applying") => ApplyingHolds(call[r], db)
         /\ At(r, "applied") => call[r] \in Applied
         /\ \A step \in { "fetching", "applying", "applied", "failing" } :
              At(r, step) => call[r] # Idle /\ log[r] = "RUNNING"
         /\ call[r] # Idle => log[r] = "RUNNING"
<1>1. FetchingHolds(call[r]) => call[r].step = "fetching"
  BY DEF FetchingHolds
<1>2. ApplyingHolds(call[r], db) => call[r].step = "applying"
  BY DEF ApplyingHolds, Applying
<1>3. call[r] \in Applied => call[r].step = "applied"
  BY DEF Applied
<1>4. Idle.step = "idle" /\ Failing.step = "failing"
  BY DEF Idle, Failing
<1>5. call[r] \in { Idle, Failing } \cup Applied \/ FetchingHolds(call[r]) \/ ApplyingHolds(call[r], db)
  BY DEF SyncInv, CallsHold
<1>6. call[r] # Idle => log[r] = "RUNNING"
  BY DEF SyncInv, RunsCounted
<1> QED BY <1>1, <1>2, <1>3, <1>4, <1>5, <1>6 DEF At

(* A run goes on, or gives up, while its row stays as it is.                 *)
LEMMA UnloggedStepInv ==
  ASSUME SyncInv, UNCHANGED << sourceVars, db, log, report, commits >>, NEW r \in Runs, NEW k,
         k \in { Idle, Failing } \/ FetchingHolds(k) \/ ApplyingHolds(k, db),
         call' = [ call EXCEPT ![r] = k ],
         call[r] # Idle,
         k.step \in { "fetching", "applying" } => At(r, "fetching"),
         k.step # "applied"
  PROVE  SyncInv'
<1>1. log'[r] = "RUNNING"
  BY StepsAre
<1>2. LogsHold'
  BY DEF SyncInv, LogsHold
<1>3. k.step \in { "fetching", "applying" } => Applications(r) = {}
  BY DEF SyncInv, RunsCounted, At
<1> QED BY <1>1, <1>2, <1>3, CallStepInv

LEMMA BeginInv ==
  ASSUME SyncInv, NEW r \in Runs, Begin(r)
  PROVE  SyncInv'
<1> DEFINE k == [ step |-> "fetching", got |-> << >> ]
<1>1. FetchingHolds(k) /\ k.step = "fetching"
  BY DEF FetchingHolds
<1>2. /\ UNCHANGED << sourceVars, db, report, commits >> /\ log[r] = "NONE"
      /\ call' = [ call EXCEPT ![r] = k ] /\ log' = [ log EXCEPT ![r] = "RUNNING" ]
  BY DEF Begin, Proceed
<1>3. LogsHold' /\ log'[r] = "RUNNING" /\ \A c \in Runs \ {r} : log'[c] = log[c]
  BY <1>2 DEF SyncInv, LogsHold, LogStatuses
<1>4. Applications(r) = {}
  BY <1>2 DEF SyncInv, RunsCounted
<1> HIDE DEF k
<1> QED BY <1>1, <1>2, <1>3, <1>4, CallStepInv

LEMMA FetchInv ==
  ASSUME SyncInv, NEW r \in Runs, NEW part \in Parts, Fetch(r, part)
  PROVE  SyncInv'
<1>1. /\ At(r, "fetching") /\ FetchingHolds(call[r]) /\ call[r] # Idle
      /\ UNCHANGED << sourceVars, db, log, report, commits >>
  BY StepsAre DEF Fetch
<1> DEFINE old == call[r].got
           got == [ p \in DOMAIN old \cup {part} |-> IF p = part THEN source[p] ELSE old[p] ]
           k == [ step |-> "fetching", got |-> got ]
<1>2. call' = [ call EXCEPT ![r] = k ]
  <2>1. call[r] = [ step |-> "fetching", got |-> old ]
    BY <1>1 DEF FetchingHolds
  <2>2. call' = [ call EXCEPT ![r] = [ call[r] EXCEPT !.got = got ] ]
    BY DEF Fetch, SyncInv, CallsHold
  <2> HIDE DEF got, old
  <2>3. [ call[r] EXCEPT !.got = got ] = k
    BY <2>1
  <2> QED BY <2>2, <2>3
<1>3. /\ source["centers"] \in SUBSET Centers /\ source["people"] \in People
      /\ source["users"] \in Users
  BY DEF SyncInv, WorldHolds, Snapshot
<1>4. FetchingHolds(k) /\ k.step = "fetching"
  <2>1. DOMAIN got = DOMAIN old \cup {part} /\ DOMAIN got \subseteq Parts
    BY <1>1 DEF FetchingHolds
  <2>2. \A p \in DOMAIN got : got[p] = IF p = part THEN source[p] ELSE old[p]
    OBVIOUS
  <2>3. got = [ p \in DOMAIN got |-> got[p] ]
    OBVIOUS
  <2> HIDE DEF got
  <2>4. /\ "centers" \in DOMAIN got => got["centers"] \in SUBSET Centers
        /\ "people" \in DOMAIN got => got["people"] \in People
        /\ "users" \in DOMAIN got => got["users"] \in Users
    BY <1>1, <1>3, <2>1, <2>2 DEF FetchingHolds
  <2>5. k.got = got /\ k.step = "fetching" /\ k = [ step |-> "fetching", got |-> k.got ]
    OBVIOUS
  <2> HIDE DEF k
  <2> QED BY <2>1, <2>3, <2>4, <2>5 DEF FetchingHolds
<1> HIDE DEF k
<1> QED BY <1>1, <1>2, <1>4, UnloggedStepInv

LEMMA GiveUpInv ==
  ASSUME SyncInv, NEW r \in Runs,
         FailToFetch(r) \/ RefuseLists(r) \/ RollBack(r) \/ FailToReport(r) \/ Vanish(r)
  PROVE  SyncInv'
<1>1. UNCHANGED << sourceVars, db, log, report, commits >> /\ call[r] # Idle
  BY StepsAre DEF FailToFetch, RefuseLists, RollBack, FailToReport, Vanish
<1>2. PICK k \in { Idle, Failing } : call' = [ call EXCEPT ![r] = k ]
  BY DEF FailToFetch, RefuseLists, RollBack, FailToReport, Vanish, GoFailing, Proceed
<1>3. k.step \in { "idle", "failing" }
  BY DEF Idle, Failing
<1> QED BY <1>1, <1>2, <1>3, UnloggedStepInv

(* The lists that were answered are a snapshot, although perhaps of no       *)
(* moment.                                                                   *)
LEMMA AnsweredIs ==
  ASSUME NEW k, FetchingHolds(k), DOMAIN k.got = Parts
  PROVE  k.got \in Snapshot
<1>1. /\ k.got = [ part \in Parts |-> k.got[part] ]
      /\ k.got["centers"] \in SUBSET Centers /\ k.got["people"] \in People
      /\ k.got["users"] \in Users
  BY DEF FetchingHolds, Parts
<1>2. PICK g : g = k.got
  OBVIOUS
<1>3. g = [ centers |-> g["centers"], people |-> g["people"], users |-> g["users"] ]
  BY <1>1, <1>2 DEF Parts
<1> QED BY <1>1, <1>2, <1>3 DEF Snapshot

LEMMA OpenTransactionInv ==
  ASSUME SyncInv, NEW r \in Runs, OpenTransaction(r)
  PROVE  SyncInv'
<1>1. /\ At(r, "fetching") /\ FetchingHolds(call[r]) /\ call[r] # Idle
      /\ UNCHANGED << sourceVars, db, log, report, commits >>
  BY StepsAre DEF OpenTransaction
<1>2. PICK lists \in Snapshot : lists = call[r].got
  BY <1>1, AnsweredIs DEF OpenTransaction, Answered
<1> DEFINE k == [ step |-> "applying", lists |-> lists, view |-> db, late |-> FALSE ]
<1>3. call' = [ call EXCEPT ![r] = k ] /\ FitsTogether(lists)
  BY <1>2 DEF OpenTransaction, Proceed
<1>4. ApplyingHolds(k, db) /\ k.step = "applying"
  <2>1. db \in Database /\ IsFiniteSet(db.membership)
    BY DEF SyncInv, TablesHold
  <2>2. k \in Applying
    BY <2>1 DEF Applying
  <2>3. k.lists = lists /\ k.view = db /\ k.step = "applying"
    OBVIOUS
  <2> HIDE DEF k
  <2> QED BY <1>3, <2>1, <2>2, <2>3 DEF ApplyingHolds
<1> HIDE DEF k
<1> QED BY <1>1, <1>3, <1>4, UnloggedStepInv

LEMMA SucceedInv ==
  ASSUME SyncInv, NEW r \in Runs, Succeed(r)
  PROVE  SyncInv'
<1>1. /\ UNCHANGED << sourceVars, db, commits >> /\ At(r, "applied") /\ call[r] \in Applied
      /\ call' = [ call EXCEPT ![r] = Idle ]
      /\ log' = [ log EXCEPT ![r] = "SUCCEEDED" ]
      /\ report' = [ report EXCEPT ![r] = [ created |-> call[r].created, closed |-> call[r].closed ] ]
  BY StepsAre DEF Succeed, Proceed
<1>2. /\ LogsHold' /\ log'[r] = "SUCCEEDED" /\ report'[r].created = call[r].created
      /\ \A c \in Runs \ {r} : log'[c] = log[c] /\ report'[c] = report[c]
  <2>1. PICK row \in [ created : Nat, closed : Nat ] :
          row.created = call[r].created /\ report' = [ report EXCEPT ![r] = row ]
    BY <1>1 DEF Applied
  <2> QED BY <1>1, <2>1 DEF SyncInv, LogsHold, LogStatuses
<1>3. Cardinality(Applications(r)) = 1 /\ report'[r].created = Cardinality(Created(r))
  BY <1>1, <1>2 DEF SyncInv, RunsCounted, At
<1>4. Idle.step = "idle"
  BY DEF Idle
<1> QED BY <1>1, <1>2, <1>3, <1>4, CallStepInv

LEMMA FailInv ==
  ASSUME SyncInv, NEW r \in Runs, Fail(r)
  PROVE  SyncInv'
<1>1. /\ UNCHANGED << sourceVars, db, report, commits >>
      /\ call' = [ call EXCEPT ![r] = Idle ] /\ log' = [ log EXCEPT ![r] = "FAILED" ]
  BY DEF Fail, Proceed
<1>2. LogsHold' /\ log'[r] = "FAILED" /\ \A c \in Runs \ {r} : log'[c] = log[c] /\ report'[c] = report[c]
  BY <1>1 DEF SyncInv, LogsHold, LogStatuses
<1>3. Idle.step = "idle"
  BY DEF Idle
<1> QED BY <1>1, <1>2, <1>3, CallStepInv

(* Days pass, Special's lists change, or nothing happens at all.             *)
LEMMA WorldStepInv ==
  ASSUME SyncInv, NextDay \/ SourceChanges \/ UNCHANGED syncVars
  PROVE  SyncInv'
<1> USE DEF SyncInv
<1>1. UNCHANGED << db, log, report, call, commits >>
  BY DEF NextDay, SourceChanges, syncVars
<1>2. WorldHolds'
  <2>1. CASE NextDay
    BY <2>1, SyncAssumption DEF NextDay, WorldHolds, Days
  <2>2. CASE SourceChanges
    BY <2>2, SyncAssumption DEF SourceChanges, WorldHolds
  <2>3. CASE UNCHANGED syncVars
    BY <2>3 DEF syncVars, sourceVars, WorldHolds
  <2> QED BY <2>1, <2>2, <2>3
<1>3. /\ TablesHold' /\ LastCommitStands' /\ MembershipsInOrder' /\ MembershipsGoOn'
      /\ \A c \in Runs : Applications(c)' = Applications(c) /\ Created(c)' = Created(c)
  BY <1>1, TablesStay
<1>4. LogsHold' /\ CallsHold'
  BY <1>1 DEF LogsHold, CallsHold
<1>5. RunsCounted' /\ ReportsTrue'
  BY <1>1, <1>3 DEF RunsCounted, ReportsTrue
<1> QED BY <1>2, <1>3, <1>4, <1>5


(***************************************************************************)
(* applySnapshot.                                                          *)
(***************************************************************************)

(* What holds when a run applies its lists, and what it writes.              *)
AppliedBy(r, k) ==
  /\ call[r] = k /\ ApplyingHolds(k, db) /\ ~Conflict(k)
  /\ log[r] = "RUNNING" /\ Applications(r) = {} /\ Created(r) = {}
  /\ db' \in Database /\ db'.membership = Memberships(r, k)
  /\ db'.tenant = FollowCenters(k)
  /\ db'.employee = Follow(db.employee, k.view.employee, k.lists.people)
  /\ db'.account = Follow(db.account, k.view.account, k.lists.users)
  /\ commits' = Append(commits, [ run |-> r, lists |-> k.lists, late |-> k.late ])
  /\ UNCHANGED << sourceVars, log, report >>

LEMMA FollowIs ==
  ASSUME NEW ids, NEW now \in [ ids -> RowStatuses ], NEW seen \in [ ids -> RowStatuses ], NEW listed
  PROVE  Follow(now, seen, listed) \in [ ids -> RowStatuses ]
BY DEF Follow, RowStatuses

LEMMA ApplyIs ==
  ASSUME SyncInv, NEW r \in Runs, Apply(r)
  PROVE  \E k \in Applying : AppliedBy(r, k)
<1> USE DEF SyncInv
<1>1. At(r, "applying") /\ ApplyingHolds(call[r], db) /\ log[r] = "RUNNING"
  BY StepsAre DEF Apply
<1>2. PICK k \in Applying : k = call[r]
  BY <1>1 DEF ApplyingHolds
<1>3. Applications(r) = {} /\ Created(r) = {}
  BY <1>1 DEF RunsCounted, At, ReportsTrue
<1>4. ~Conflict(k)
  BY <1>2 DEF Apply
<1> DEFINE tables ==
      [ affiliation |-> "LINKED", tenant |-> FollowCenters(k),
        employee |-> Follow(db.employee, k.view.employee, k.lists.people),
        account |-> Follow(db.account, k.view.account, k.lists.users),
        membership |-> Memberships(r, k) ]
<1>5. /\ db' = tables
      /\ commits' = Append(commits, [ run |-> r, lists |-> k.lists, late |-> k.late ])
      /\ UNCHANGED << sourceVars, log, report >>
  BY <1>2 DEF Apply
<1>6. /\ db \in Database /\ k.view \in Database /\ today \in Days
  BY <1>2 DEF TablesHold, Applying, WorldHolds
<1>7. FollowCenters(k) \in [ Centers -> TenantStatuses ]
  <2>1. db.tenant \in [ Centers -> TenantStatuses ]
    BY <1>6 DEF Database
  <2> QED BY <2>1 DEF FollowCenters, TenantStatuses, RowStatuses
<1>8. /\ Follow(db.employee, k.view.employee, k.lists.people) \in [ Employees -> RowStatuses ]
      /\ Follow(db.account, k.view.account, k.lists.users) \in [ Accounts -> RowStatuses ]
  <2>1. /\ db.employee \in [ Employees -> RowStatuses ] /\ k.view.employee \in [ Employees -> RowStatuses ]
        /\ db.account \in [ Accounts -> RowStatuses ] /\ k.view.account \in [ Accounts -> RowStatuses ]
    BY <1>6 DEF Database
  <2> QED BY <2>1, FollowIs
<1>9. Memberships(r, k) \in SUBSET EmploymentMembership
  BY <1>4, <1>6, MembershipsTyped
<1>10. tables \in Database
  BY <1>7, <1>8, <1>9 DEF Database, AffiliationStatuses
<1> QED BY <1>1, <1>2, <1>3, <1>4, <1>5, <1>10 DEF AppliedBy

(* The commit is the last of the history.                                    *)
LEMMA CommitIs ==
  ASSUME SyncInv, NEW r \in Runs, NEW k \in Applying, AppliedBy(r, k)
  PROVE  /\ commits' \in Seq(Commit) /\ commits' # << >>
         /\ Last' = [ run |-> r, lists |-> k.lists, late |-> k.late ]
         /\ Applications(r)' = { Len(commits) + 1 }
         /\ \A c \in Runs \ {r} : Applications(c)' = Applications(c)
         /\ \A e : Raced(e)' <=> Raced(e) \/ (k.late /\ e \in DOMAIN k.lists.people)
<1> DEFINE new == [ run |-> r, lists |-> k.lists, late |-> k.late ]
           n == Len(commits)
<1>1. new \in Commit /\ commits \in Seq(Commit)
  BY DEF Commit, Applying, SyncInv, LogsHold
<1>2. /\ new.run = r /\ new.lists = k.lists /\ new.late = k.late
      /\ commits' = Append(commits, new)
  BY DEF AppliedBy
<1> HIDE DEF new
<1>3. /\ commits' \in Seq(Commit) /\ commits' # << >> /\ Len(commits') = n + 1 /\ n \in Nat
      /\ \A i \in 1 .. n : commits'[i] = commits[i]
      /\ commits'[n + 1] = new
  BY <1>1, <1>2, AppendProperties, LenProperties
<1>4. DOMAIN commits = 1 .. n /\ DOMAIN commits' = 1 .. n + 1
  BY <1>1, <1>3, LenProperties
<1>5. Last' = new
  BY <1>3 DEF Last
<1>6. Applications(r)' = { n + 1 }
  BY <1>2, <1>3, <1>4 DEF Applications, AppliedBy
<1>7. \A c \in Runs \ {r} : Applications(c)' = Applications(c)
  BY <1>2, <1>3, <1>4 DEF Applications
<1>8. \A e : Raced(e)' <=> Raced(e) \/ (k.late /\ e \in DOMAIN k.lists.people)
  BY <1>2, <1>3, <1>4 DEF Raced
<1> QED BY <1>3, <1>5, <1>6, <1>7, <1>8 DEF new

LEMMA ApplyTables ==
  ASSUME SyncInv, NEW r \in Runs, NEW k \in Applying, AppliedBy(r, k)
  PROVE  TablesHold'
<1>1. OneId(Memberships(r, k))
  BY MembershipsOneId DEF SyncInv, TablesHold, WorldHolds, AppliedBy
<1>2. IsFiniteSet(Memberships(r, k))
  BY MembershipsFinite DEF SyncInv, TablesHold
<1> QED BY <1>1, <1>2 DEF AppliedBy, TablesHold

LEMMA ApplyCounts ==
  ASSUME SyncInv, NEW r \in Runs, NEW k \in Applying, AppliedBy(r, k)
  PROVE  /\ Cardinality(Created(r)') = Cardinality(Newcomers(k))
         /\ \A c \in Runs \ {r} :
              /\ Cardinality(Created(c)') = Cardinality(Created(c))
              /\ Created(c) = {} => Created(c)' = {}
<1>1. \A c \in Runs : Created(c)' = { n \in Memberships(r, k) : n.by = c }
  BY DEF Created, AppliedBy
<1>2. today \in Days /\ TablesHold /\ ~Conflict(k) /\ Created(r) = {}
  BY DEF SyncInv, WorldHolds, AppliedBy
<1>3. Cardinality(Created(r)') = Cardinality(Newcomers(k))
  BY <1>1, <1>2, OwnRowsCounted
<1>4. \A c \in Runs \ {r} : Cardinality(Created(c)') = Cardinality(Created(c))
  BY <1>1, <1>2, OtherRowsCounted
<1>5. \A c \in Runs \ {r} : Created(c) = {} => Created(c)' = {}
  <2> SUFFICES ASSUME NEW c \in Runs \ {r}, Created(c) = {} PROVE Created(c)' = {}
    OBVIOUS
  <2>1. IsFiniteSet(Created(c)')
    BY ApplyTables, FS_Subset DEF TablesHold, Created
  <2>2. Cardinality(Created(c)') = 0
    BY <1>4, FS_EmptySet
  <2> QED BY <2>1, <2>2, FS_EmptySet
<1> QED BY <1>3, <1>4, <1>5


LEMMA ApplyCalls ==
  ASSUME SyncInv, NEW r \in Runs, NEW k \in Applying, AppliedBy(r, k), Apply(r)
  PROVE  CallsHold' /\ RunsCounted' /\ ReportsTrue'
<1> USE DEF SyncInv
<1>1. /\ Cardinality(Newcomers(k)) \in Nat /\ Cardinality(RowsToClose(k)) \in Nat
  <2>1. IsFiniteSet(k.view.membership)
    BY DEF AppliedBy, ApplyingHolds
  <2>2. RowsToClose(k) \subseteq k.view.membership
    BY DEF RowsToClose, OpenRows
  <2> QED BY <2>1, <2>2, NewcomersAre, FS_Subset, FS_CardinalityType
<1>2. PICK j \in Applied : j.created = Cardinality(Newcomers(k)) /\ call'[r] = j
  <2>1. call'[r] = [ step |-> "applied", created |-> Cardinality(Newcomers(k)),
                     closed |-> Cardinality(RowsToClose(k)) ]
    BY DEF Apply, AppliedBy
  <2> QED BY <1>1, <2>1 DEF Applied
<1>3. j.step = "applied"
  BY DEF Applied
<1>4. ASSUME NEW c \in Runs \ {r}
      PROVE  /\ call'[c].step = call[c].step
             /\ call'[c] # Idle => call[c] # Idle
             /\ \/ call'[c] \in { Idle, Failing } \cup Applied
                \/ FetchingHolds(call'[c]) \/ ApplyingHolds(call'[c], db')
  <2>1. CASE At(c, "applying")
    <3>1. ApplyingHolds(call[c], db) /\ call'[c] = [ call[c] EXCEPT !.late = TRUE ]
      BY <2>1, StepsAre DEF Apply
    <3>2. PICK j0 \in Applying : j0 = call[c]
      BY <3>1 DEF ApplyingHolds
    <3> DEFINE j1 == [ j0 EXCEPT !.late = TRUE ]
    <3>3. /\ j1 \in Applying /\ j1.lists = j0.lists /\ j1.view = j0.view /\ j1.late
          /\ j1.step = j0.step
      BY DEF Applying
    <3> HIDE DEF j1
    <3>4. ApplyingHolds(j1, db')
      BY <3>1, <3>2, <3>3 DEF ApplyingHolds
    <3>5. call'[c] = j1
      BY <3>1, <3>2 DEF j1
    <3>6. call[c] # Idle
      BY <2>1 DEF At, Idle
    <3> QED BY <3>2, <3>3, <3>4, <3>5, <3>6
  <2>2. CASE ~At(c, "applying")
    <3>1. call'[c] = call[c]
      BY <2>2 DEF Apply
    <3>2. ~ApplyingHolds(call[c], db)
      BY <2>2 DEF ApplyingHolds, Applying, At
    <3> QED BY <3>1, <3>2 DEF CallsHold
  <2> QED BY <2>1, <2>2
<1>5. CallsHold'
  <2>1. call' = [ c \in Runs |-> call'[c] ]
    BY DEF Apply
  <2> QED BY <1>2, <1>4, <2>1 DEF CallsHold
<1>6. /\ log' = log /\ report' = report /\ log[r] = "RUNNING"
      /\ Applications(r)' # {} /\ Cardinality(Applications(r)') = 1
      /\ \A c \in Runs \ {r} : Applications(c)' = Applications(c)
  BY CommitIs, FS_Singleton DEF AppliedBy
<1>7. RunsCounted'
  <2>1. /\ call'[r].step = "applied" /\ log'[r] = "RUNNING"
        /\ call'[r].created = Cardinality(Created(r)')
    BY <1>2, <1>3, <1>6, ApplyCounts
  <2>2. ASSUME NEW c \in Runs \ {r}
        PROVE  /\ call'[c] # Idle => log'[c] = "RUNNING"
               /\ log'[c] = "NONE" \/ call'[c].step \in { "fetching", "applying" } => Applications(c)' = {}
               /\ call'[c].step = "applied" =>
                    /\ Cardinality(Applications(c)') = 1
                    /\ call'[c].created = Cardinality(Created(c)')
    <3>1. /\ call[c] # Idle => log[c] = "RUNNING"
          /\ log[c] = "NONE" \/ call[c].step \in { "fetching", "applying" } => Applications(c) = {}
          /\ call[c].step = "applied" =>
               Cardinality(Applications(c)) = 1 /\ call[c].created = Cardinality(Created(c))
      BY DEF RunsCounted
    <3>2. Cardinality(Created(c)') = Cardinality(Created(c))
      BY ApplyCounts
    <3>3. call'[c].step = "applied" => call'[c] = call[c]
      BY <1>4 DEF Apply, At
    <3> QED BY <1>4, <1>6, <3>1, <3>2, <3>3
  <2> QED BY <1>6, <2>1, <2>2 DEF RunsCounted
<1>8. ReportsTrue'
  BY <1>6, ApplyCounts DEF ReportsTrue
<1> QED BY <1>5, <1>7, <1>8

(***************************************************************************)
(* The memberships of one employee.                                        *)
(***************************************************************************)

(* Nobody who is not listed is touched.                                      *)
LEMMA UnlistedStay ==
  ASSUME SyncInv, NEW r \in Runs, NEW k \in Applying, AppliedBy(r, k),
         NEW e, e \notin DOMAIN k.lists.people
  PROVE  { n \in db'.membership : n.employee = e } = { m \in db.membership : m.employee = e }
<1>1. today \in Days /\ db \in Database /\ ~Conflict(k) /\ db'.membership = Memberships(r, k)
  BY DEF SyncInv, WorldHolds, TablesHold, AppliedBy
<1>2. ASSUME NEW m \in db.membership, m.employee = e
      PROVE  CloseRow(k, m) = m
  BY <1>1, <1>2, CloseRowIs, RowsAre, RowToCloseIs DEF SameRow
<1>3. ASSUME NEW m \in db.membership, m.employee = e
      PROVE  m \in db'.membership
  BY <1>1, <1>2, <1>3 DEF Memberships
<1>4. ASSUME NEW n \in db'.membership, n.employee = e
      PROVE  n \in db.membership
  <2>1. ASSUME NEW f \in Newcomers(k), n = NewRow(r, k, f) PROVE FALSE
    BY <1>1, <1>4, <2>1, NewcomersAre, NewRowIs
  <2>2. PICK m \in db.membership : n = CloseRow(k, m)
    BY <1>1, <2>1, MembershipsAre
  <2>3. m.employee = e
    BY <1>1, <1>4, <2>2, RowsAre, CloseRowIs
  <2> QED BY <1>2, <2>2, <2>3
<1> QED BY <1>3, <1>4

(* With a view that is not outdated, a row is closed exactly when it is to   *)
(* be closed.                                                                *)
LEMMA ClosedIs ==
  ASSUME SyncInv, NEW r \in Runs, NEW k \in Applying, AppliedBy(r, k), ~k.late,
         NEW m \in db.membership
  PROVE  /\ CloseRow(k, m) \in db'.membership
         /\ CloseRow(k, m).employee = m.employee /\ CloseRow(k, m).by = m.by
         /\ CloseRow(k, m).from = m.from /\ CloseRow(k, m).center = m.center
         /\ m \notin RowsToClose(k) => CloseRow(k, m) = m
         /\ m \in RowsToClose(k) =>
              /\ m.to = Open /\ CloseRow(k, m).to = EffectiveFrom(k, m.employee) - 1
              /\ CloseRow(k, m).to \in Days /\ CloseRow(k, m).to >= m.from
<1>1. /\ today \in Days /\ db \in Database /\ OneId(db.membership) /\ ~Conflict(k)
      /\ db'.membership = Memberships(r, k) /\ k.view = db
  BY DEF SyncInv, WorldHolds, TablesHold, AppliedBy, ApplyingHolds
<1>2. CloseRow(k, m) \in db'.membership /\ m \in EmploymentMembership
  BY <1>1, RowsAre DEF Memberships
<1>3. \A n \in RowsToClose(k) : SameRow(m, n) => n = m
  BY <1>1, RowToCloseIs DEF OneId
<1>4. m \in RowsToClose(k) => SameRow(m, m)
  BY DEF SameRow
<1>5. m \in RowsToClose(k) =>
        m.to = Open /\ EffectiveFrom(k, m.employee) - 1 >= m.from
  BY <1>1, RowToCloseIs
<1> QED BY <1>1, <1>2, <1>3, <1>4, <1>5, CloseRowIs

LEMMA RowsToCloseAre ==
  ASSUME SyncInv, NEW r \in Runs, NEW k \in Applying, AppliedBy(r, k), ~k.late,
         NEW m \in db.membership, m.employee \in DOMAIN k.lists.people
  PROVE  m \in RowsToClose(k) <=> m.to = Open /\ m \notin Kept(k, m.employee)
<1>1. ~Conflict(k) /\ k.view = db /\ today \in Days
  BY DEF AppliedBy, ApplyingHolds, SyncInv, WorldHolds
<1>2. m \in RowsToClose(k) => m.to = Open /\ m \notin Kept(k, m.employee)
  BY <1>1, RowToCloseIs
<1>3. m.to = Open /\ m \notin Kept(k, m.employee) => m \in RowsToClose(k)
  BY <1>1 DEF RowsToClose, OpenRows
<1> QED BY <1>2, <1>3

(* Whoever is listed works where the list says.                              *)
LEMMA ListedWork ==
  ASSUME SyncInv, NEW r \in Runs, NEW k \in Applying, AppliedBy(r, k), ~k.late,
         NEW e \in DOMAIN k.lists.people
  PROVE  \E n \in db'.membership :
           n.employee = e /\ n.to = Open /\ n.center = k.lists.people[e].center
<1>1. k.view = db /\ today \in Days /\ db'.membership = Memberships(r, k)
  BY DEF AppliedBy, ApplyingHolds, SyncInv, WorldHolds
<1>2. CASE Matching(k, e) = {}
  <2>1. e \in Newcomers(k)
    BY <1>2 DEF Newcomers
  <2>2. NewRow(r, k, e) \in db'.membership
    BY <1>1, <2>1 DEF Memberships
  <2> QED BY <1>1, <2>2, NewRowIs
<1>3. CASE Matching(k, e) # {}
  <2>1. PICK m \in Matching(k, e) : Kept(k, e) = { m }
    BY <1>3 DEF Kept
  <2>2. /\ m \in db.membership /\ m.employee = e /\ m.to = Open
        /\ m.center = k.lists.people[e].center
    BY <1>1 DEF Matching, OpenRows
  <2>3. m \notin RowsToClose(k)
    BY <2>1, <2>2, RowsToCloseAre
  <2>4. m \in db'.membership
    BY <2>2, <2>3, ClosedIs
  <2> QED BY <2>2, <2>4
<1> QED BY <1>2, <1>3

(* The open row of an employee who was not raced comes after all others.     *)
LEMMA OpenRowIsLast ==
  ASSUME SyncInv, NEW m \in db.membership, NEW o \in db.membership, m # o,
         m.employee = o.employee, o.to = Open, ~Raced(o.employee)
  PROVE  EndsBefore(m, o)
BY DEF SyncInv, MembershipsInOrder, InOrder, EndsBefore

(* A new row begins after the others have ended.                             *)
LEMMA NewRowIsLast ==
  ASSUME SyncInv, NEW r \in Runs, NEW k \in Applying, AppliedBy(r, k), ~k.late,
         NEW e \in Newcomers(k), ~Raced(e), NEW m \in db.membership, m.employee = e
  PROVE  EndsBefore(CloseRow(k, m), NewRow(r, k, e))
<1>1. today \in Days /\ e \in DOMAIN k.lists.people /\ Kept(k, e) = {} /\ db \in Database
  BY NewcomersAre DEF SyncInv, WorldHolds, TablesHold, Newcomers, Kept
<1>2. NewRow(r, k, e).from = EffectiveFrom(k, e) /\ EffectiveFrom(k, e) \in Nat
  <2>1. EffectiveFrom(k, e) \in Days
    BY <1>1, EffectiveFromIs
  <2>2. EffectiveFrom(k, e) \in Nat
    BY <2>1, DaysAre
  <2> QED BY <1>1, <2>2, NewRowIs
<1>3. PICK o \in db.membership : o.employee = e /\ o.to = Open
  BY DEF SyncInv, MembershipsGoOn, GoesOn
<1>4. o \in RowsToClose(k)
  BY <1>1, <1>3, RowsToCloseAre
<1>5. EffectiveFrom(k, e) - 1 >= o.from
  BY <1>3, <1>4, ClosedIs
<1>6. m \in EmploymentMembership /\ o \in EmploymentMembership
  BY <1>1, RowsAre
<1>7. CASE m = o
  BY <1>2, <1>3, <1>4, <1>7, ClosedIs, DaysAre DEF EndsBefore
<1>8. CASE m # o
  <2>1. m.to # Open /\ m.to < o.from
    BY <1>3, <1>8, OpenRowIsLast DEF EndsBefore
  <2>2. CloseRow(k, m) = m
    BY <1>1, <2>1, RowsToCloseAre, ClosedIs
  <2>3. m.to \in Nat /\ o.from \in Nat
    <3>1. m.to \in Days /\ o.from \in Days
      BY <1>6, <2>1 DEF EmploymentMembership
    <3> QED BY <3>1, DaysAre
  <2> QED BY <1>2, <1>5, <2>1, <2>2, <2>3 DEF EndsBefore
<1> QED BY <1>7, <1>8

(* The rows of one employee stay in order, and one of them open.             *)
LEMMA ListedInOrder ==
  ASSUME SyncInv, NEW r \in Runs, NEW k \in Applying, AppliedBy(r, k), ~k.late,
         NEW e \in DOMAIN k.lists.people, ~Raced(e),
         NEW m \in db'.membership, m.employee = e,
         NEW n \in db'.membership, n.employee = e, m # n
  PROVE  EndsBefore(m, n) \/ EndsBefore(n, m)
<1>1. /\ today \in Days /\ db \in Database /\ ~Conflict(k)
      /\ db'.membership = Memberships(r, k)
  BY DEF SyncInv, WorldHolds, TablesHold, AppliedBy
<1>2. ASSUME NEW x \in db'.membership, x.employee = e
      PROVE  \/ \E y \in db.membership : y.employee = e /\ x = CloseRow(k, y)
             \/ e \in Newcomers(k) /\ x = NewRow(r, k, e)
  <2>1. ASSUME NEW y \in db.membership, x = CloseRow(k, y)
        PROVE  y.employee = e
    BY <1>2, <2>1, ClosedIs
  <2>2. ASSUME NEW f \in Newcomers(k), x = NewRow(r, k, f)
        PROVE  f = e
    BY <1>1, <1>2, <2>2, NewcomersAre, NewRowIs
  <2> QED BY <1>1, <2>1, <2>2, MembershipsAre
<1>3. ASSUME NEW x \in db.membership, x.employee = e, m = CloseRow(k, x),
             NEW y \in db.membership, y.employee = e, n = CloseRow(k, y)
      PROVE  EndsBefore(m, n) \/ EndsBefore(n, m)
  <2>1. EndsBefore(x, y) \/ EndsBefore(y, x)
    BY <1>3 DEF SyncInv, MembershipsInOrder, InOrder
  <2>2. x.to # Open => m = x
    BY <1>3, ClosedIs
  <2>3. y.to # Open => n = y
    BY <1>3, ClosedIs
  <2>4. m.from = x.from /\ n.from = y.from
    BY <1>3, ClosedIs
  <2> QED BY <2>1, <2>2, <2>3, <2>4 DEF EndsBefore
<1>4. CASE e \in Newcomers(k) /\ m = NewRow(r, k, e)
  BY <1>2, <1>4, NewRowIsLast
<1>5. CASE e \in Newcomers(k) /\ n = NewRow(r, k, e)
  BY <1>2, <1>5, NewRowIsLast
<1> QED BY <1>2, <1>3, <1>4, <1>5


(* Of an employee who is not raced even now, either the view that was        *)
(* applied is not outdated, or the rows were not touched.                    *)
LEMMA UnracedAre ==
  ASSUME SyncInv, NEW r \in Runs, NEW k \in Applying, AppliedBy(r, k), NEW e, ~Raced(e)'
  PROVE  ~Raced(e) /\ (e \in DOMAIN k.lists.people => ~k.late)
BY CommitIs

LEMMA ApplyOrder ==
  ASSUME SyncInv, NEW r \in Runs, NEW k \in Applying, AppliedBy(r, k)
  PROVE  MembershipsInOrder' /\ MembershipsGoOn'
<1>1. ASSUME NEW m \in db'.membership, NEW n \in db'.membership, m.employee = n.employee, m # n,
             ~Raced(m.employee)'
      PROVE  EndsBefore(m, n) \/ EndsBefore(n, m)
  <2> DEFINE e == m.employee
  <2>1. ~Raced(e) /\ (e \in DOMAIN k.lists.people => ~k.late)
    BY <1>1, UnracedAre
  <2>2. CASE e \in DOMAIN k.lists.people
    BY <1>1, <2>1, <2>2, ListedInOrder
  <2>3. CASE e \notin DOMAIN k.lists.people
    <3>1. m \in db.membership /\ n \in db.membership
      BY <1>1, <2>3, UnlistedStay
    <3> QED BY <1>1, <2>1, <3>1 DEF SyncInv, MembershipsInOrder, InOrder
  <2> QED BY <2>2, <2>3
<1>2. MembershipsInOrder'
  BY <1>1 DEF MembershipsInOrder, InOrder
<1>3. ASSUME NEW m \in db'.membership, ~Raced(m.employee)'
      PROVE  \E n \in db'.membership : n.employee = m.employee /\ n.to = Open
  <2> DEFINE e == m.employee
  <2>1. ~Raced(e) /\ (e \in DOMAIN k.lists.people => ~k.late)
    BY <1>3, UnracedAre
  <2>2. CASE e \in DOMAIN k.lists.people
    BY <2>1, <2>2, ListedWork
  <2>3. CASE e \notin DOMAIN k.lists.people
    <3>1. m \in db.membership
      BY <2>3, UnlistedStay
    <3>2. PICK n \in db.membership : n.employee = e /\ n.to = Open
      BY <2>1, <3>1 DEF SyncInv, MembershipsGoOn, GoesOn
    <3>3. n \in db'.membership
      BY <2>3, <3>2, UnlistedStay
    <3> QED BY <3>2, <3>3
  <2> QED BY <2>2, <2>3
<1>4. MembershipsGoOn'
  BY <1>3 DEF MembershipsGoOn, GoesOn
<1> QED BY <1>2, <1>4

LEMMA FollowsLists ==
  ASSUME NEW ids, NEW now \in [ ids -> RowStatuses ], NEW listed, NEW i \in ids
  PROVE  Follow(now, now, listed)[i] = "ACTIVE" <=> i \in DOMAIN listed /\ listed[i].active
BY DEF Follow

LEMMA ApplyStands ==
  ASSUME SyncInv, NEW r \in Runs, NEW k \in Applying, AppliedBy(r, k)
  PROVE  LastCommitStands'
<1>1. commits' # << >> /\ Last'.late = k.late /\ Last'.lists = k.lists
  BY CommitIs
<1> SUFFICES ASSUME ~k.late
             PROVE  /\ \A c \in Centers : db'.tenant[c] = "ACTIVE" <=> c \in k.lists.centers
                    /\ \A e \in Employees : db'.employee[e] = "ACTIVE" <=>
                         e \in DOMAIN k.lists.people /\ k.lists.people[e].active
                    /\ \A a \in Accounts : db'.account[a] = "ACTIVE" <=>
                         a \in DOMAIN k.lists.users /\ k.lists.users[a].active
                    /\ \A e \in DOMAIN k.lists.people :
                         /\ db'.tenant[k.lists.people[e].center] = "ACTIVE"
                         /\ \E m \in db'.membership :
                              /\ m.employee = e /\ m.to = Open
                              /\ m.center = k.lists.people[e].center
  BY <1>1 DEF LastCommitStands
<1>2. /\ k.view = db /\ FitsTogether(k.lists)
      /\ db.employee \in [ Employees -> RowStatuses ] /\ db.account \in [ Accounts -> RowStatuses ]
  BY DEF AppliedBy, ApplyingHolds, SyncInv, TablesHold, Database
<1>3. \A c \in Centers : db'.tenant[c] = "ACTIVE" <=> c \in k.lists.centers
  BY <1>2 DEF AppliedBy, FollowCenters
<1>4. \A e \in Employees : db'.employee[e] = "ACTIVE" <=>
        e \in DOMAIN k.lists.people /\ k.lists.people[e].active
  BY <1>2, FollowsLists DEF AppliedBy
<1>5. \A a \in Accounts : db'.account[a] = "ACTIVE" <=>
        a \in DOMAIN k.lists.users /\ k.lists.users[a].active
  BY <1>2, FollowsLists DEF AppliedBy
<1>6. \A e \in DOMAIN k.lists.people : db'.tenant[k.lists.people[e].center] = "ACTIVE"
  BY <1>2, <1>3, ListedPeople DEF FitsTogether
<1> QED BY <1>3, <1>4, <1>5, <1>6, ListedWork

LEMMA ApplyInv ==
  ASSUME SyncInv, NEW r \in Runs, Apply(r)
  PROVE  SyncInv'
<1>1. PICK k \in Applying : AppliedBy(r, k)
  BY ApplyIs
<1>2. WorldHolds'
  BY <1>1 DEF SyncInv, WorldHolds, AppliedBy, sourceVars
<1>3. LogsHold'
  BY <1>1, CommitIs DEF SyncInv, LogsHold, AppliedBy
<1>4. TablesHold' /\ CallsHold' /\ RunsCounted' /\ ReportsTrue'
  BY <1>1, ApplyTables, ApplyCalls
<1>5. LastCommitStands' /\ MembershipsInOrder' /\ MembershipsGoOn'
  BY <1>1, ApplyStands, ApplyOrder
<1> QED BY <1>2, <1>3, <1>4, <1>5 DEF SyncInv

LEMMA SyncNextInv == SyncInv /\ [SyncNext]_syncVars => SyncInv'
<1> SUFFICES ASSUME SyncInv, [SyncNext]_syncVars PROVE SyncInv'
  OBVIOUS
<1>1. ASSUME NEW r \in Runs, SyncStep(r) PROVE SyncInv'
  BY <1>1, BeginInv, FetchInv, GiveUpInv, OpenTransactionInv, ApplyInv, SucceedInv, FailInv
     DEF SyncStep
<1> QED BY <1>1, WorldStepInv DEF SyncNext

LEMMA SyncSpecInv == SyncSpec => []SyncInv
BY SyncInitInv, SyncNextInv, PTL DEF SyncSpec

(***************************************************************************)
(* The theorems.                                                           *)
(***************************************************************************)
(* Type correctness: the lists, the tables, the rows of the runs and what    *)
(* the runs have read keep their shapes, and no two rows have one id.        *)
THEOREM TypeCorrect == SyncSpec => []SyncTypeOK
<1>1. SyncInv => SyncTypeOK
  <2> SUFFICES ASSUME SyncInv PROVE SyncTypeOK
    OBVIOUS
  <2>1. ASSUME NEW r \in Runs
        PROVE  \/ call[r] \in { Idle, Failing } \cup Applying \cup Applied
               \/ /\ call[r] = [ step |-> "fetching", got |-> call[r].got ]
                  /\ DOMAIN call[r].got \subseteq Parts
                  /\ \E s \in Snapshot : \A part \in DOMAIN call[r].got : call[r].got[part] = s[part]
    <3>1. CASE call[r] \in { Idle, Failing } \cup Applied \/ ApplyingHolds(call[r], db)
      BY <3>1 DEF ApplyingHolds
    <3>2. CASE FetchingHolds(call[r])
      <4> DEFINE got == call[r].got
                 centers == IF "centers" \in DOMAIN got THEN got["centers"] ELSE source.centers
                 people == IF "people" \in DOMAIN got THEN got["people"] ELSE source.people
                 users == IF "users" \in DOMAIN got THEN got["users"] ELSE source.users
                 s == [ centers |-> centers, people |-> people, users |-> users ]
      <4>1. source.centers \in SUBSET Centers /\ source.people \in People /\ source.users \in Users
        BY DEF SyncInv, WorldHolds, Snapshot
      <4>2. centers \in SUBSET Centers /\ people \in People /\ users \in Users
        BY <3>2, <4>1 DEF FetchingHolds
      <4>3. /\ "centers" \in DOMAIN got => got["centers"] = centers
            /\ "people" \in DOMAIN got => got["people"] = people
            /\ "users" \in DOMAIN got => got["users"] = users
        OBVIOUS
      <4>4. DOMAIN got \subseteq Parts
        BY <3>2 DEF FetchingHolds
      <4> HIDE DEF centers, people, users
      <4>5. s["centers"] = centers /\ s["people"] = people /\ s["users"] = users
        OBVIOUS
      <4>6. s \in Snapshot
        BY <4>2 DEF Snapshot
      <4> HIDE DEF s
      <4>7. \A part \in DOMAIN got : got[part] = s[part]
        BY <4>3, <4>4, <4>5 DEF Parts
      <4> QED BY <3>2, <4>4, <4>6, <4>7 DEF FetchingHolds
    <3> QED BY <3>1, <3>2 DEF SyncInv, CallsHold
  <2> QED BY <2>1 DEF SyncInv, WorldHolds, TablesHold, LogsHold, SyncTypeOK
<1> QED BY <1>1, SyncSpecInv, PTL

(* The memberships of one employee follow each other without overlap, unless *)
(* a run with an outdated view wrote them (syncMembership).                  *)
THEOREM MembershipsInOrderCorrect == SyncSpec => []MembershipsInOrder
<1>1. SyncInv => MembershipsInOrder
  BY DEF SyncInv
<1> QED BY <1>1, SyncSpecInv, PTL

(* The tables say what the lists of the last run said, unless its view was   *)
(* outdated (applySnapshot).                                                 *)
THEOREM LastCommitCorrect == SyncSpec => []LastCommitStands
<1>1. SyncInv => LastCommitStands
  BY DEF SyncInv
<1> QED BY <1>1, SyncSpecInv, PTL

(* A run reported as SUCCEEDED was applied once and created as many rows as  *)
(* it says; one that was not applied left none (syncFromSpecial).            *)
THEOREM ReportsCorrect == SyncSpec => []ReportsTrue
<1>1. SyncInv => ReportsTrue
  BY DEF SyncInv
<1> QED BY <1>1, SyncSpecInv, PTL

(* A step that writes a table is the commit of a run.                        *)
LEMMA OnlyApplyWrites ==
  ASSUME SyncInv, [SyncNext]_syncVars
  PROVE  UNCHANGED << db, commits >> \/ \E r \in Runs, k \in Applying : AppliedBy(r, k)
<1>1. ASSUME NEW r \in Runs, SyncStep(r)
      PROVE  UNCHANGED << db, commits >> \/ Apply(r)
  BY <1>1 DEF SyncStep, Begin, Fetch, FailToFetch, RefuseLists, OpenTransaction, RollBack, Succeed,
              FailToReport, Fail, Vanish
<1>2. NextDay \/ SourceChanges \/ UNCHANGED syncVars => UNCHANGED << db, commits >>
  BY DEF NextDay, SourceChanges, syncVars
<1> QED BY <1>1, <1>2, ApplyIs DEF SyncNext

(* No membership is lost, moved or reopened, and only a run with an outdated *)
(* view changes the day on which one ended (syncMembership).                 *)
THEOREM HistoryKeptCorrect == SyncSpec => HistoryKept
<1>1. SyncInv /\ [SyncNext]_syncVars => KeepsHistory
  <2> SUFFICES ASSUME SyncInv, [SyncNext]_syncVars, NEW m \in db.membership
               PROVE  \E n \in db'.membership :
                        /\ SameRow(m, n) /\ n.center = m.center /\ n.from = m.from
                        /\ m.to # Open => n.to = m.to \/ (n.to # Open /\ Last'.late)
    BY DEF KeepsHistory
  <2>1. CASE UNCHANGED << db, commits >>
    BY <2>1 DEF SameRow
  <2>2. ASSUME NEW r \in Runs, NEW k \in Applying, AppliedBy(r, k)
        PROVE  \E n \in db'.membership :
                 /\ SameRow(m, n) /\ n.center = m.center /\ n.from = m.from
                 /\ m.to # Open => n.to = m.to \/ (n.to # Open /\ Last'.late)
    <3>1. /\ today \in Days /\ db \in Database /\ ~Conflict(k)
          /\ db'.membership = Memberships(r, k) /\ Last'.late = k.late
      BY <2>2, CommitIs DEF SyncInv, WorldHolds, TablesHold, AppliedBy
    <3> DEFINE n == CloseRow(k, m)
    <3>2. n \in db'.membership /\ m \in EmploymentMembership
      BY <3>1, RowsAre DEF Memberships
    <3>3. SameRow(m, n) /\ n.center = m.center /\ n.from = m.from /\ (n = m \/ n.to \in Days)
      BY <3>1, <3>2, CloseRowIs DEF SameRow
    <3>4. CASE k.late
      BY <3>1, <3>2, <3>3, <3>4, DaysAre
    <3>5. CASE ~k.late
      <4>1. m.to # Open => n = m
        BY <2>2, <3>5, ClosedIs
      <4> QED BY <3>2, <3>3, <4>1
    <3> QED BY <3>4, <3>5
  <2> QED BY <2>1, <2>2, OnlyApplyWrites
<1> QED BY <1>1, SyncSpecInv, PTL DEF SyncSpec, HistoryKept

(* The lists in force, applied once more, change no membership of an         *)
(* employee who was not raced.                                               *)
LEMMA RepeatedIsIdle ==
  ASSUME SyncInv, NEW r \in Runs, NEW k \in Applying, AppliedBy(r, k), ~k.late,
         commits # << >>, ~Last.late, Last.lists = k.lists,
         NEW e \in DOMAIN k.lists.people, ~Raced(e)
  PROVE  { n \in db'.membership : n.employee = e } = { m \in db.membership : m.employee = e }
<1>1. /\ today \in Days /\ db \in Database /\ k.view = db /\ ~Conflict(k)
      /\ db'.membership = Memberships(r, k)
  BY DEF SyncInv, WorldHolds, TablesHold, AppliedBy, ApplyingHolds
<1>2. PICK o \in db.membership :
        o.employee = e /\ o.to = Open /\ o.center = k.lists.people[e].center
  BY DEF SyncInv, LastCommitStands
<1>3. OpenRows(k, e) = { o }
  <2>1. \A m \in db.membership : m.employee = e /\ m.to = Open => m = o
    BY <1>2, OpenRowIsLast DEF EndsBefore
  <2> QED BY <1>1, <1>2, <2>1 DEF OpenRows
<1>4. o.from <= o.from
  <2>1. o.from \in Days
    BY <1>1, RowsAre DEF EmploymentMembership
  <2>2. o.from \in Nat
    BY <2>1, DaysAre
  <2> QED BY <2>2
<1>5. Matching(k, e) = { o } /\ Kept(k, e) = { o }
  <2>1. Matching(k, e) = { o }
    BY <1>2, <1>3, <1>4 DEF Matching
  <2> QED BY <2>1 DEF Kept
<1>6. e \notin Newcomers(k)
  BY <1>5 DEF Newcomers
<1>7. ASSUME NEW m \in db.membership, m.employee = e
      PROVE  CloseRow(k, m) = m /\ m \in db'.membership
  <2>1. m.to = Open => m = o
    BY <1>1, <1>3, <1>7 DEF OpenRows
  <2>2. m \notin RowsToClose(k)
    BY <1>5, <1>7, <2>1, RowsToCloseAre
  <2> QED BY <2>2, ClosedIs
<1>8. ASSUME NEW n \in db'.membership, n.employee = e
      PROVE  n \in db.membership
  <2>1. ASSUME NEW f \in Newcomers(k), n = NewRow(r, k, f) PROVE FALSE
    BY <1>1, <1>6, <1>8, <2>1, NewcomersAre, NewRowIs
  <2>2. PICK m \in db.membership : n = CloseRow(k, m)
    BY <1>1, <2>1, MembershipsAre
  <2>3. m.employee = e
    BY <1>8, <2>2, ClosedIs
  <2> QED BY <1>7, <2>2, <2>3
<1> QED BY <1>7, <1>8

(* A repeated run creates and closes nothing (syncMembership).               *)
THEOREM RepeatedSyncIdleCorrect == SyncSpec => RepeatedSyncIdle
<1>1. SyncInv /\ [SyncNext]_syncVars => RepeatsIdly
  <2> SUFFICES ASSUME SyncInv, [SyncNext]_syncVars,
                      commits' # commits, commits # << >>, ~Last.late, ~Last'.late,
                      Last'.lists = Last.lists, NEW e \in Employees, ~Raced(e)
               PROVE  { m \in db'.membership : m.employee = e } =
                        { m \in db.membership : m.employee = e }
    BY DEF RepeatsIdly
  <2>1. PICK r \in Runs, k \in Applying : AppliedBy(r, k)
    BY OnlyApplyWrites
  <2>2. ~k.late /\ Last.lists = k.lists
    BY <2>1, CommitIs
  <2>3. CASE e \in DOMAIN k.lists.people
    BY <2>1, <2>2, <2>3, RepeatedIsIdle
  <2>4. CASE e \notin DOMAIN k.lists.people
    BY <2>1, <2>4, UnlistedStay
  <2> QED BY <2>3, <2>4
<1> QED BY <1>1, SyncSpecInv, PTL DEF SyncSpec, RepeatedSyncIdle
=============================================================================
