----------------------------- MODULE AuthSessions -----------------------------
(***************************************************************************)
(* AuthSessionService and AuthMaintenanceService: a login creates an       *)
(* opaque session; requests use it, rotate it or end it; the worker's      *)
(* clean-up deletes what has expired.                                      *)
(*                                                                         *)
(* A request reads the session and the account's identity first and        *)
(* writes afterwards, with the time at which it began; other requests,     *)
(* other processes and the clean-up run in between.  Rotation alone        *)
(* re-checks, in the transaction that creates the replacement.             *)
(*                                                                         *)
(* The launch token that opens a login, the cookie and the workspaces of   *)
(* the returned user are left out.                                         *)
(***************************************************************************)
EXTENDS Integers

CONSTANTS
  Logins,       \* logins, each made with a launch token of its own
  Accounts,     \* Portal accounts (externalSubject)
  Sessions,     \* identifiers of AuthSession rows
  Calls,        \* slots for requests in progress
  Ttl,          \* ONEDATA_SESSION_TTL_SECONDS
  IdleTimeout,  \* ONEDATA_SESSION_IDLE_TIMEOUT_SECONDS
  Retention,    \* ONEDATA_AUTH_RETENTION_SECONDS
  LastTime,     \* bound: the last instant of the model
  NoSession,    \* an AuthSession row that does not exist
  Idle          \* an unused request slot

(* 0 stands for a revokedAt that is null.                                    *)
Times == 1 .. LastTime

Reasons == { "LOGOUT", "IDLE_TIMEOUT", "IDENTITY_NOT_ACTIVE", "IDENTITY_REVOKED", "ROTATED" }

(* login is not a column: it says which login a row descends from.           *)
AuthSession ==
  [ login : Logins, account : Accounts, expiresAt : Times, lastSeenAt : Times,
    revokedAt : Times \cup {0}, reason : Reasons \cup {"none"} ]

(* What a request in progress will do next, and the time it read when it     *)
(* last looked at its session.  A rotation is a use (the guard of the route) *)
(* followed by a second look.                                                *)
LoginCall == [ op : {"login"}, account : Accounts, at : Times ]
UseCall ==
  [ op : {"use", "rotate"}, session : Sessions, account : Accounts, at : Times,
    step : {"identify", "touch", "look", "confirm", "replace", "expel", "expire"} ]

ASSUME SessionAssumption ==
  /\ Ttl \in Nat \ {0}
  /\ IdleTimeout \in Nat \ {0}
  /\ Retention \in Nat
  /\ LastTime \in Nat \ {0}
  /\ {"none", "over"} \cap Sessions = {}
  /\ NoSession \notin AuthSession
  /\ Idle \notin LoginCall \cup UseCall

VARIABLES
  now,       \* the clock of the processes
  mapped,    \* accounts mapped to an active employee with a membership
  session,   \* AuthSession rows
  call,      \* what each request in progress has read
  opened,    \* history: the absolute expiry of each login (0 before it is made)
  issued     \* history: the row identifiers ever used

rowVars == << session, opened, issued >>
vars == << now, mapped, rowVars, call >>

Init ==
  /\ now = 1
  /\ mapped = Accounts
  /\ session = [s \in Sessions |-> NoSession]
  /\ call = [c \in Calls |-> Idle]
  /\ opened = [l \in Logins |-> 0]
  /\ issued = {}

Stored(s) == session[s] # NoSession
Unrevoked(s) == Stored(s) /\ session[s].revokedAt = 0

(* Mutant: a revocation does not ask for revokedAt to be null.               *)
RevokeAgain(rows, at, reason) ==
  session' = [s \in Sessions |->
    IF s \in rows /\ Stored(s)
    THEN [session[s] EXCEPT !.revokedAt = at, !.reason = reason]
    ELSE session[s]]

(* The updateMany of every revocation: only rows that are not revoked yet.   *)
Revoke(rows, at, reason) ==
  session' = [s \in Sessions |->
    IF s \in rows /\ Unrevoked(s)
    THEN [session[s] EXCEPT !.revokedAt = at, !.reason = reason]
    ELSE session[s]]

Done(c) == call' = [call EXCEPT ![c] = Idle]
Proceed(c, step) == call' = [call EXCEPT ![c].step = step]
At(c, step) == call[c] # Idle /\ call[c].op # "login" /\ call[c].step = step

(***************************************************************************)
(* createFromPortalClaims.                                                 *)
(***************************************************************************)
BeginLogin(c, a) ==
  /\ call[c] = Idle
  /\ a \in mapped
  /\ now + Ttl <= LastTime
  /\ call' = [call EXCEPT ![c] = [op |-> "login", account |-> a, at |-> now]]
  /\ UNCHANGED << now, mapped, rowVars >>

CommitLogin(c, l, s) ==
  LET k == call[c]
  IN  /\ k # Idle /\ k.op = "login"
      /\ opened[l] = 0
      /\ s \notin issued
      /\ session' = [session EXCEPT ![s] =
           [login |-> l, account |-> k.account, expiresAt |-> k.at + Ttl,
            lastSeenAt |-> k.at, revokedAt |-> 0, reason |-> "none"]]
      /\ opened' = [opened EXCEPT ![l] = k.at + Ttl]
      /\ issued' = issued \cup {s}
      /\ Done(c)
      /\ UNCHANGED << now, mapped >>

(***************************************************************************)
(* userFromRequest, and the same checks in rotateFromRequest.              *)
(***************************************************************************)
(* The session is there and has not run out; is it still in use?             *)
Look(c, op, s, next) ==
  /\ Unrevoked(s)
  /\ session[s].expiresAt > now
  /\ call' = [call EXCEPT ![c] =
       [op |-> op, session |-> s, account |-> session[s].account, at |-> now,
        step |-> IF session[s].lastSeenAt + IdleTimeout <= now THEN "expire" ELSE next]]
  /\ UNCHANGED << now, mapped, rowVars >>

BeginUse(c, s, op) == call[c] = Idle /\ Look(c, op, s, "identify")

(* buildCurrentUser reads the mapping and the memberships.                   *)
Identify(c) ==
  /\ At(c, "identify")
  /\ Proceed(c, IF call[c].account \in mapped THEN "touch" ELSE "expel")
  /\ UNCHANGED << now, mapped, rowVars >>

(* lastSeenAt is updated by id, revoked or not, with the time of the look.   *)
Touch(c) ==
  LET s == call[c].session
  IN  /\ At(c, "touch")
      /\ Stored(s)
      /\ session' = [session EXCEPT ![s].lastSeenAt = call[c].at]
      /\ IF call[c].op = "rotate" THEN Proceed(c, "look") ELSE Done(c)
      /\ UNCHANGED << now, mapped, opened, issued >>

(* The session of an idle or no longer active account is revoked.            *)
Expel(c) ==
  /\ At(c, "expel") \/ At(c, "expire")
  /\ Revoke({call[c].session}, call[c].at,
            IF At(c, "expire") THEN "IDLE_TIMEOUT" ELSE "IDENTITY_NOT_ACTIVE")
  /\ Done(c)
  /\ UNCHANGED << now, mapped, opened, issued >>

(***************************************************************************)
(* rotateFromRequest.                                                      *)
(***************************************************************************)
LookAgain(c) ==
  /\ At(c, "look")
  /\ Look(c, "rotate", call[c].session, "confirm")

Confirm(c) ==
  /\ At(c, "confirm")
  /\ call[c].account \in mapped
  /\ Proceed(c, "replace")
  /\ UNCHANGED << now, mapped, rowVars >>

(* The old row is revoked and its replacement inserted, in one transaction.  *)
Swap(c, s, expiresAt) ==
  LET old == call[c].session
      at == call[c].at
  IN  /\ s \notin issued
      /\ session' = [session EXCEPT
           ![old].revokedAt = at, ![old].reason = "ROTATED",
           ![s] = [session[old] EXCEPT !.lastSeenAt = at, !.expiresAt = expiresAt,
                                       !.revokedAt = 0, !.reason = "none"]]
      /\ issued' = issued \cup {s}
      /\ Done(c)
      /\ UNCHANGED << now, mapped, opened >>

(* Mutant: the number of revoked rows is not checked.                        *)
ReplaceUnchecked(c, s) ==
  /\ At(c, "replace")
  /\ Stored(call[c].session)
  /\ Swap(c, s, session[call[c].session].expiresAt)

(* Mutant: the replacement gets a new absolute expiry.                       *)
ReplaceExtending(c, s) ==
  /\ At(c, "replace")
  /\ Unrevoked(call[c].session)
  /\ Swap(c, s, call[c].at + Ttl)

(* The update must find the row unrevoked, or the transaction is undone.     *)
Replace(c, s) ==
  /\ At(c, "replace")
  /\ Unrevoked(call[c].session)
  /\ Swap(c, s, session[call[c].session].expiresAt)

(* A refusal, a database failure, or the death of the process.               *)
AbandonCall(c) ==
  /\ call[c] # Idle
  /\ Done(c)
  /\ UNCHANGED << now, mapped, rowVars >>

(***************************************************************************)
(* revokeFromRequest, revokeAllForExternalSubject and cleanupExpired.      *)
(***************************************************************************)
Logout(s) ==
  /\ Unrevoked(s)
  /\ Revoke({s}, now, "LOGOUT")
  /\ UNCHANGED << now, mapped, call, opened, issued >>

RevokeAll(a) ==
  LET rows == {s \in Sessions : Unrevoked(s) /\ session[s].account = a}
  IN  /\ rows # {}
      /\ Revoke(rows, now, "IDENTITY_REVOKED")
      /\ UNCHANGED << now, mapped, call, opened, issued >>

(* Mutant: only revoked rows are cleaned up.                                 *)
DisposableWhenRevoked(s, t) ==
  Stored(s) /\ session[s].revokedAt > 0 /\ session[s].revokedAt + Retention <= t

Disposable(s, t) ==
  /\ Stored(s)
  /\ \/ session[s].expiresAt <= t
     \/ session[s].revokedAt > 0 /\ session[s].revokedAt + Retention <= t

(* The clean-up took its time t when it began.                               *)
CleanUp(t) ==
  /\ t <= now
  /\ \E s \in Sessions : Disposable(s, t)
  /\ session' = [s \in Sessions |-> IF Disposable(s, t) THEN NoSession ELSE session[s]]
  /\ UNCHANGED << now, mapped, call, opened, issued >>

-----------------------------------------------------------------------------
(* The synchronisation of master data, the identity mapping and the dates of *)
(* memberships decide which accounts are mapped.                             *)
IdentityChanges(a) ==
  /\ mapped' = IF a \in mapped THEN mapped \ {a} ELSE mapped \cup {a}
  /\ UNCHANGED << now, rowVars, call >>

Tick ==
  /\ now < LastTime
  /\ now' = now + 1
  /\ UNCHANGED << mapped, rowVars, call >>

(* Row numbers are random, so it does not matter which unused one is taken.  *)
FreshOne == IF Sessions \ issued = {} THEN {} ELSE {CHOOSE s \in Sessions \ issued : TRUE}

Next ==
  \/ \E c \in Calls :
       \/ \E a \in Accounts : BeginLogin(c, a)
       \/ \E l \in Logins, s \in FreshOne : CommitLogin(c, l, s)
       \/ \E s \in Sessions, op \in {"use", "rotate"} : BeginUse(c, s, op)
       \/ Identify(c)
       \/ Touch(c)
       \/ Expel(c)
       \/ LookAgain(c)
       \/ Confirm(c)
       \/ \E s \in FreshOne : Replace(c, s)
       \/ AbandonCall(c)
  \/ \E s \in Sessions : Logout(s)
  \/ \E a \in Accounts : RevokeAll(a) \/ IdentityChanges(a)
  \/ \E t \in Times : CleanUp(t)
  \/ Tick

(* The worker's loop cleans up after every run of the snapshot worker that   *)
(* does not fail, and time passes.                                           *)
Fairness == WF_vars(\E t \in Times : CleanUp(t)) /\ WF_vars(Tick)

Spec == Init /\ [][Next]_vars /\ Fairness
-----------------------------------------------------------------------------
(***************************************************************************)
(* Properties.                                                             *)
(***************************************************************************)

(* The types of the rows and of what the requests have read.                 *)
TypeOK ==
  /\ now \in Times
  /\ mapped \in SUBSET Accounts
  /\ session \in [Sessions -> AuthSession \cup {NoSession}]
  /\ call \in [Calls -> LoginCall \cup UseCall \cup {Idle}]
  /\ opened \in [Logins -> Times \cup {0}]
  /\ issued \in SUBSET Sessions

(* The first revocation of a session decides: whatever logout, idle timeout, *)
(* rotation and revocation of the account race, its time and reason are      *)
(* never rewritten and the session never lives again, until the clean-up     *)
(* deletes it.                                                               *)
RevocationStands ==
  [][\A s \in Sessions :
       (Stored(s) /\ ~Unrevoked(s)) =>
         \/ session'[s] = NoSession
         \/ /\ session'[s].revokedAt = session[s].revokedAt
            /\ session'[s].reason = session[s].reason]_vars

(* Every session is deleted in the end: rotation does not prolong a login,   *)
(* and no request in progress saves a session from the clean-up.             *)
SessionsAreCleared == \A s \in Sessions : Stored(s) ~> ~Stored(s)

Carries(s, l) == Unrevoked(s) /\ session[s].login = l

Carrier(l) ==
  IF \E s \in Sessions : Carries(s, l) THEN CHOOSE s \in Sessions : Carries(s, l)
  ELSE IF opened[l] = 0 THEN "none" ELSE "over"

(* The expiry as the row that carries the login has it.                      *)
Expiry(l) == IF Carrier(l) \in Sessions THEN session[Carrier(l)].expiresAt ELSE opened[l]

Lifecycle == INSTANCE LoginLifecycle WITH
  None <- "none", Over <- "over",
  carrier <- [l \in Logins |-> Carrier(l)],
  expiry <- [l \in Logins |-> Expiry(l)]

(* UAT case AUTH-003: a login lives in at most one session at a time, is     *)
(* handed on by rotation with its absolute expiry, and does not come back    *)
(* after logout, idle timeout or the revocation of its account, although     *)
(* rotations of the same session may be under way.                           *)
RefinesLogins == Lifecycle!Spec

-----------------------------------------------------------------------------
(***************************************************************************)
(* The strengthening that makes the properties above inductive.            *)
(***************************************************************************)
(* A stored row descends from a login that was made, under a number that was *)
(* given to it; while it is not revoked it has that login's expiry.          *)
RowsDescend ==
  \A s \in Sessions : Stored(s) =>
    /\ s \in issued
    /\ opened[session[s].login] # 0
    /\ Unrevoked(s) => session[s].expiresAt = opened[session[s].login]

OneCarrier ==
  \A s, t \in Sessions :
    (Unrevoked(s) /\ Unrevoked(t) /\ session[s].login = session[t].login) => s = t

(* A login in progress was begun in time for the model's clock.              *)
LoginsFit ==
  \A c \in Calls : (call[c] # Idle /\ call[c].op = "login") => call[c].at + Ttl <= LastTime

Inv == TypeOK /\ RowsDescend /\ OneCarrier /\ LoginsFit
=============================================================================
