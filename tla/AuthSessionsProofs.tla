-------------------------- MODULE AuthSessionsProofs --------------------------
(***************************************************************************)
(* The session component keeps its invariant and implements LoginLifecycle *)
(* for any sets of logins, accounts, sessions and concurrent requests.     *)
(*                                                                         *)
(* Two facts carry the argument: every revocation and every rotation works *)
(* on a row that is not revoked yet, and a rotation finds its row so in    *)
(* the transaction that inserts the replacement.                           *)
(***************************************************************************)
EXTENDS AuthSessions, TLAPS

(* Initially nothing is stored.                                              *)
LEMMA InitInv == Init => Inv
<1> SUFFICES ASSUME Init PROVE Inv
  OBVIOUS
<1>1. \A s \in Sessions : ~Stored(s)
  BY DEF Init, Stored
<1>2. TypeOK
  BY SessionAssumption DEF Init, TypeOK, Times
<1>3. RowsDescend /\ OneCarrier
  BY <1>1 DEF RowsDescend, OneCarrier, Unrevoked
<1>4. LoginsFit
  BY DEF Init, LoginsFit
<1> QED
  BY <1>2, <1>3, <1>4 DEF Inv

-----------------------------------------------------------------------------
(***************************************************************************)
(* Steps that store nothing new.                                           *)
(***************************************************************************)
(* What a step that stores nothing new may do to a row: leave it, delete it, *)
(* revoke it if it is not revoked, or write lastSeenAt.                      *)
Descends(s) ==
  session'[s] # NoSession =>
    /\ Stored(s)
    /\ session'[s].login = session[s].login
    /\ session'[s].expiresAt = session[s].expiresAt
    /\ session'[s].revokedAt = 0 => session[s].revokedAt = 0

NothingNew ==
  /\ session' \in [Sessions -> AuthSession \cup {NoSession}]
  /\ \A s \in Sessions : Descends(s)
  /\ UNCHANGED << opened, issued >>

LEMMA RowsEndure ==
  ASSUME RowsDescend, OneCarrier, NothingNew
  PROVE  RowsDescend' /\ OneCarrier'
BY DEF RowsDescend, OneCarrier, NothingNew, Descends, Unrevoked, Stored

(* A revocation stores nothing new.                                          *)
LEMMA RevokeDescends ==
  ASSUME TypeOK, NEW rows, NEW at \in Times, NEW reason \in Reasons,
         Revoke(rows, at, reason), UNCHANGED << opened, issued >>
  PROVE  NothingNew
<1>1. ASSUME NEW s \in Sessions
      PROVE  session'[s] \in AuthSession \cup {NoSession} /\ Descends(s)
  <2>1. CASE s \in rows /\ Unrevoked(s)
    <3>1. session[s] \in AuthSession
      BY <2>1 DEF TypeOK, Unrevoked, Stored
    <3>2. session'[s] = [session[s] EXCEPT !.revokedAt = at, !.reason = reason]
      BY <2>1 DEF Revoke
    <3>3. session'[s] \in AuthSession /\ session'[s].login = session[s].login
            /\ session'[s].expiresAt = session[s].expiresAt
      BY <3>1, <3>2 DEF AuthSession
    <3> QED
      BY <2>1, <3>3 DEF Descends, Unrevoked
  <2>2. CASE ~(s \in rows /\ Unrevoked(s))
    <3>1. session'[s] = session[s]
      BY <2>2 DEF Revoke
    <3> QED
      BY <3>1 DEF TypeOK, Descends, Stored
  <2> QED
    BY <2>1, <2>2
<1> QED
  BY <1>1 DEF Revoke, NothingNew

-----------------------------------------------------------------------------
(***************************************************************************)
(* Requests in progress.                                                   *)
(***************************************************************************)
CallsTyped == call \in [Calls -> LoginCall \cup UseCall \cup {Idle}]

CallsOK == CallsTyped /\ LoginsFit

(* A request that ends, or goes on to its next step, stays well formed.      *)
LEMMA DoneOK ==
  ASSUME CallsOK, NEW c \in Calls, Done(c)
  PROVE  CallsOK'
BY DEF CallsOK, CallsTyped, LoginsFit, Done

LEMMA ProceedOK ==
  ASSUME CallsOK, NEW c \in Calls, NEW from, At(c, from),
         NEW step \in {"identify", "touch", "look", "confirm", "replace", "expel", "expire"},
         Proceed(c, step)
  PROVE  CallsOK'
<1>1. call[c] \in UseCall
  BY DEF CallsOK, CallsTyped, At, LoginCall
<1>2. [call[c] EXCEPT !.step = step] \in UseCall
  BY <1>1 DEF UseCall
<1>3. [call[c] EXCEPT !.step = step].op # "login"
  BY <1>1 DEF UseCall
<1>4. call' = [call EXCEPT ![c] = [call[c] EXCEPT !.step = step]]
  BY DEF Proceed
<1>5. CallsTyped'
  BY <1>2, <1>4 DEF CallsOK, CallsTyped
<1>6. LoginsFit'
  BY <1>3, <1>4 DEF CallsOK, CallsTyped, LoginsFit
<1> QED
  BY <1>5, <1>6 DEF CallsOK

LEMMA LookOK ==
  ASSUME TypeOK, CallsOK, NEW c \in Calls, NEW op \in {"use", "rotate"}, NEW s \in Sessions,
         NEW next \in {"identify", "confirm"}, Look(c, op, s, next)
  PROVE  CallsOK'
<1> DEFINE read == [op |-> op, session |-> s, account |-> session[s].account, at |-> now,
                    step |-> IF session[s].lastSeenAt + IdleTimeout <= now
                             THEN "expire" ELSE next]
<1>1. session[s] \in AuthSession
  BY DEF TypeOK, Look, Unrevoked, Stored
<1>2. session[s].account \in Accounts /\ now \in Times
  BY <1>1 DEF AuthSession, TypeOK
<1>3. read \in UseCall /\ read.op # "login"
  BY <1>2 DEF UseCall
<1>4. call' = [call EXCEPT ![c] = read]
  BY DEF Look
<1> HIDE DEF read
<1> QED
  BY <1>3, <1>4 DEF CallsOK, CallsTyped, LoginsFit

LEMMA CallsAreOK == Inv => CallsOK
BY DEF Inv, TypeOK, CallsOK, CallsTyped

(* What is left to show of the types when rows and requests are well formed. *)
LEMMA InvFromParts ==
  ASSUME TypeOK, RowsDescend', OneCarrier', CallsOK',
         session' \in [Sessions -> AuthSession \cup {NoSession}],
         now' \in Times, mapped' \in SUBSET Accounts,
         opened' \in [Logins -> Times \cup {0}], issued' \in SUBSET Sessions
  PROVE  Inv'
BY DEF Inv, TypeOK, CallsOK, CallsTyped

(* A step that stores nothing new and moves no clock.                        *)
LEMMA QuietStep ==
  ASSUME Inv, NothingNew, CallsOK', UNCHANGED << now, mapped >>
  PROVE  Inv'
<1>1. RowsDescend' /\ OneCarrier'
  BY RowsEndure DEF Inv
<1>2. session' \in [Sessions -> AuthSession \cup {NoSession}] /\ now' \in Times
        /\ mapped' \in SUBSET Accounts /\ opened' \in [Logins -> Times \cup {0}]
        /\ issued' \in SUBSET Sessions
  BY DEF Inv, TypeOK, NothingNew
<1> QED
  BY <1>1, <1>2, InvFromParts DEF Inv

LEMMA StillNothingNew ==
  ASSUME TypeOK, UNCHANGED rowVars
  PROVE  NothingNew
BY DEF TypeOK, rowVars, NothingNew, Descends, Stored

(* A number that is taken is one of the session numbers.                     *)
LEMMA FreshIsSession == FreshOne \subseteq Sessions
BY DEF FreshOne

-----------------------------------------------------------------------------
(***************************************************************************)
(* The steps, one by one.                                                  *)
(***************************************************************************)
(* A request that begins, reads on or is abandoned touches no row.           *)
LEMMA BeginLoginInv ==
  ASSUME Inv, NEW c \in Calls, NEW a \in Accounts, BeginLogin(c, a)
  PROVE  Inv'
<1> DEFINE k == [op |-> "login", account |-> a, at |-> now]
<1>1. k \in LoginCall /\ k.at + Ttl <= LastTime
  BY DEF BeginLogin, LoginCall, Inv, TypeOK
<1>2. call' = [call EXCEPT ![c] = k]
  BY DEF BeginLogin
<1> HIDE DEF k
<1>3. CallsOK'
  BY <1>1, <1>2, CallsAreOK DEF CallsOK, CallsTyped, LoginsFit
<1>4. NothingNew
  BY StillNothingNew DEF BeginLogin, Inv
<1> QED
  BY <1>3, <1>4, QuietStep DEF BeginLogin

LEMMA AbandonCallInv ==
  ASSUME Inv, NEW c \in Calls, AbandonCall(c)
  PROVE  Inv'
<1>1. CallsOK'
  BY CallsAreOK, DoneOK DEF AbandonCall
<1>2. NothingNew
  BY StillNothingNew DEF AbandonCall, Inv
<1> QED
  BY <1>1, <1>2, QuietStep DEF AbandonCall

LEMMA ReadingInv ==
  ASSUME Inv, NEW c \in Calls,
         \/ \E s \in Sessions, op \in {"use", "rotate"} : BeginUse(c, s, op)
         \/ Identify(c)
         \/ LookAgain(c)
         \/ Confirm(c)
  PROVE  Inv'
<1>1. CallsOK'
  <2>1. CASE \E s \in Sessions, op \in {"use", "rotate"} : BeginUse(c, s, op)
    BY <2>1, CallsAreOK, LookOK DEF Inv, BeginUse
  <2>2. CASE Identify(c)
    BY <2>2, CallsAreOK, ProceedOK DEF Identify
  <2>3. CASE LookAgain(c)
    <3>1. call[c].session \in Sessions
      BY <2>3 DEF LookAgain, At, Inv, TypeOK, LoginCall, UseCall
    <3> QED
      BY <2>3, <3>1, CallsAreOK, LookOK DEF Inv, LookAgain
  <2>4. CASE Confirm(c)
    BY <2>4, CallsAreOK, ProceedOK DEF Confirm
  <2> QED
    BY <2>1, <2>2, <2>3, <2>4
<1>2. UNCHANGED << now, mapped, rowVars >>
  BY DEF BeginUse, Look, Identify, LookAgain, Confirm
<1>3. NothingNew
  BY <1>2, StillNothingNew DEF Inv
<1> QED
  BY <1>1, <1>2, <1>3, QuietStep

(* What a request knows of its session, whatever its step.                   *)
LEMMA InUse ==
  ASSUME TypeOK, NEW c \in Calls, NEW step, At(c, step)
  PROVE  call[c] \in UseCall /\ call[c].session \in Sessions /\ call[c].at \in Times
<1>1. call[c] \in UseCall
  BY DEF TypeOK, At, LoginCall
<1> QED
  BY <1>1 DEF UseCall

(* lastSeenAt is the only column a use writes.                               *)
LEMMA TouchQuiet ==
  ASSUME Inv, NEW c \in Calls, Touch(c)
  PROVE  NothingNew
<1> DEFINE s == call[c].session
           row == [session[s] EXCEPT !.lastSeenAt = call[c].at]
<1>1. s \in Sessions /\ call[c].at \in Times
  BY InUse DEF Touch, Inv
<1>2. session[s] \in AuthSession
  BY <1>1 DEF Touch, Stored, Inv, TypeOK
<1>3. row \in AuthSession /\ row.login = session[s].login
        /\ row.expiresAt = session[s].expiresAt /\ row.revokedAt = session[s].revokedAt
  BY <1>1, <1>2 DEF AuthSession
<1>4. session' = [session EXCEPT ![s] = row] /\ Stored(s)
  BY DEF Touch
<1> HIDE DEF row, s
<1>5. session' \in [Sessions -> AuthSession \cup {NoSession}]
  BY <1>1, <1>3, <1>4 DEF Inv, TypeOK
<1>6. \A t \in Sessions : Descends(t)
  BY <1>1, <1>3, <1>4 DEF Descends, Stored, Inv, TypeOK
<1> QED
  BY <1>5, <1>6 DEF NothingNew, Touch

LEMMA TouchInv ==
  ASSUME Inv, NEW c \in Calls, Touch(c)
  PROVE  Inv'
<1>1. CallsOK'
  BY CallsAreOK, DoneOK, ProceedOK DEF Touch
<1> QED
  BY <1>1, TouchQuiet, QuietStep DEF Touch

LEMMA ExpelQuiet ==
  ASSUME Inv, NEW c \in Calls, Expel(c)
  PROVE  NothingNew
<1>1. call[c].at \in Times
  BY InUse DEF Expel, Inv
<1> QED
  BY <1>1, RevokeDescends DEF Expel, Inv, Reasons

LEMMA ExpelInv ==
  ASSUME Inv, NEW c \in Calls, Expel(c)
  PROVE  Inv'
<1>1. CallsOK'
  BY CallsAreOK, DoneOK DEF Expel
<1> QED
  BY <1>1, ExpelQuiet, QuietStep DEF Expel

(* Logout, the revocation of an account and the clean-up: no request moves.  *)
LEMMA OutsideQuiet ==
  ASSUME Inv,
         \/ \E s \in Sessions : Logout(s)
         \/ \E a \in Accounts : RevokeAll(a)
         \/ \E t \in Times : CleanUp(t)
  PROVE  NothingNew /\ UNCHANGED << now, mapped, call >>
<1>1. ASSUME NEW s \in Sessions, Logout(s)
      PROVE  NothingNew
  BY <1>1, RevokeDescends DEF Logout, Inv, TypeOK, Reasons
<1>2. ASSUME NEW a \in Accounts, RevokeAll(a)
      PROVE  NothingNew
  BY <1>2, RevokeDescends DEF RevokeAll, Inv, TypeOK, Reasons
<1>3. ASSUME NEW t \in Times, CleanUp(t)
      PROVE  NothingNew
  BY <1>3 DEF CleanUp, NothingNew, Descends, Stored, Inv, TypeOK
<1> QED
  BY <1>1, <1>2, <1>3 DEF Logout, RevokeAll, CleanUp

LEMMA SameCallsOK ==
  ASSUME CallsOK, call' = call
  PROVE  CallsOK'
BY DEF CallsOK, CallsTyped, LoginsFit

LEMMA OutsideInv ==
  ASSUME Inv,
         \/ \E s \in Sessions : Logout(s)
         \/ \E a \in Accounts : RevokeAll(a)
         \/ \E t \in Times : CleanUp(t)
  PROVE  Inv'
<1>1. NothingNew /\ UNCHANGED << now, mapped, call >>
  BY OutsideQuiet
<1> QED
  BY <1>1, CallsAreOK, SameCallsOK, QuietStep

LEMMA EnvironmentInv ==
  ASSUME Inv, Tick \/ (\E a \in Accounts : IdentityChanges(a)) \/ UNCHANGED vars
  PROVE  Inv'
<1>1. UNCHANGED << rowVars, call >> /\ now' \in Times /\ mapped' \in SUBSET Accounts
  BY SessionAssumption DEF Tick, IdentityChanges, vars, Inv, TypeOK, Times
<1>2. NothingNew
  BY <1>1, StillNothingNew DEF Inv
<1>3. RowsDescend' /\ OneCarrier'
  BY <1>2, RowsEndure DEF Inv
<1>4. CallsOK'
  BY <1>1, CallsAreOK, SameCallsOK
<1>5. opened' \in [Logins -> Times \cup {0}] /\ issued' \in SUBSET Sessions
  BY <1>1 DEF rowVars, Inv, TypeOK
<1> QED
  BY <1>1, <1>2, <1>3, <1>4, <1>5, InvFromParts DEF NothingNew, Inv

-----------------------------------------------------------------------------
(***************************************************************************)
(* The two steps that store a row.                                         *)
(***************************************************************************)
(* A login is made with a fresh number and is the first of its login.        *)
LEMMA CommitLoginRow ==
  ASSUME Inv, NEW c \in Calls, NEW l \in Logins, NEW s \in Sessions, CommitLogin(c, l, s)
  PROVE  \E row \in AuthSession :
           /\ session' = [session EXCEPT ![s] = row]
           /\ row.login = l /\ row.revokedAt = 0
           /\ opened' = [opened EXCEPT ![l] = row.expiresAt]
           /\ row.expiresAt \in Times
           /\ issued' = issued \cup {s}
           /\ ~Stored(s)
           /\ \A t \in Sessions : Stored(t) => session[t].login # l
<1> DEFINE k == call[c]
           row == [login |-> l, account |-> k.account, expiresAt |-> k.at + Ttl,
                   lastSeenAt |-> k.at, revokedAt |-> 0, reason |-> "none"]
<1>1. k \in LoginCall /\ k.at + Ttl <= LastTime
  BY DEF CommitLogin, UseCall, LoginsFit, Inv, TypeOK
<1>2. k.account \in Accounts /\ k.at \in Times
  BY <1>1 DEF LoginCall
<1>3. k.at + Ttl \in Times
  BY <1>1, <1>2, SessionAssumption DEF Times
<1>4. row \in AuthSession
  BY <1>2, <1>3 DEF AuthSession
<1>5. ~Stored(s) /\ \A t \in Sessions : Stored(t) => session[t].login # l
  BY DEF CommitLogin, RowsDescend, Inv
<1>6. /\ session' = [session EXCEPT ![s] = row]
      /\ opened' = [opened EXCEPT ![l] = row.expiresAt]
      /\ issued' = issued \cup {s}
  BY DEF CommitLogin
<1>7. row.login = l /\ row.revokedAt = 0 /\ row.expiresAt \in Times
  BY <1>3
<1> HIDE DEF row, k
<1> QED
  BY <1>4, <1>5, <1>6, <1>7

(* The types, after a row of a fresh number and one written in place.        *)
LEMMA CommitLoginInv ==
  ASSUME Inv, NEW c \in Calls, NEW l \in Logins, NEW s \in Sessions, CommitLogin(c, l, s)
  PROVE  Inv'
<1>1. PICK row \in AuthSession :
           /\ session' = [session EXCEPT ![s] = row]
           /\ row.login = l /\ row.revokedAt = 0
           /\ opened' = [opened EXCEPT ![l] = row.expiresAt]
           /\ row.expiresAt \in Times
           /\ issued' = issued \cup {s}
           /\ ~Stored(s)
           /\ \A t \in Sessions : Stored(t) => session[t].login # l
  BY CommitLoginRow
<1>2. CallsOK'
  BY CallsAreOK, DoneOK DEF CommitLogin
<1>3. /\ session' \in [Sessions -> AuthSession \cup {NoSession}]
      /\ opened' \in [Logins -> Times \cup {0}] /\ issued' \in SUBSET Sessions
  BY <1>1 DEF Inv, TypeOK
<1>4. \A t \in Sessions : t # s => session'[t] = session[t]
  BY <1>1 DEF Inv, TypeOK
<1>5. session'[s] = row /\ opened'[l] = row.expiresAt /\ opened'[l] # 0
  BY <1>1, SessionAssumption DEF Inv, TypeOK, Times
<1>6. \A m \in Logins : m # l => opened'[m] = opened[m]
  BY <1>1 DEF Inv, TypeOK
<1>7. RowsDescend'
  <2>1. ASSUME NEW t \in Sessions, t # s, Stored(t)'
        PROVE  t \in issued' /\ opened'[session'[t].login] # 0
                 /\ (Unrevoked(t)' => session'[t].expiresAt = opened'[session'[t].login])
    <3>1. Stored(t) /\ session'[t] = session[t] /\ session[t] \in AuthSession
      BY <2>1, <1>4 DEF Stored, Inv, TypeOK
    <3>2. session[t].login \in Logins /\ session[t].login # l
      BY <3>1, <1>1 DEF AuthSession
    <3> QED
      BY <3>1, <3>2, <1>1, <1>6 DEF RowsDescend, Unrevoked, Inv, Stored
  <2> QED
    BY <2>1, <1>1, <1>5 DEF RowsDescend
<1>8. OneCarrier'
  BY <1>1, <1>4, <1>5 DEF OneCarrier, Unrevoked, Stored, Inv
<1> QED
  BY <1>2, <1>3, <1>7, <1>8, InvFromParts DEF CommitLogin, Inv, TypeOK

(* A rotation finds its row unrevoked, revokes it and inserts a fresh one of *)
(* the same login and expiry.                                                *)
LEMMA ReplaceRow ==
  ASSUME Inv, NEW c \in Calls, NEW s \in Sessions, Replace(c, s)
  PROVE  \E old \in Sessions, dead, row \in AuthSession :
           /\ session' = [session EXCEPT ![old] = dead, ![s] = row]
           /\ Unrevoked(old) /\ ~Stored(s)
           /\ dead.login = session[old].login /\ dead.expiresAt = session[old].expiresAt
           /\ dead.revokedAt # 0
           /\ row.login = session[old].login /\ row.expiresAt = session[old].expiresAt
           /\ row.revokedAt = 0
           /\ s \notin issued /\ issued' = issued \cup {s} /\ UNCHANGED opened
<1> DEFINE old == call[c].session
           at == call[c].at
           dead == [session[old] EXCEPT !.revokedAt = at, !.reason = "ROTATED"]
           row == [session[old] EXCEPT !.lastSeenAt = at, !.expiresAt = session[old].expiresAt,
                                       !.revokedAt = 0, !.reason = "none"]
<1>1. old \in Sessions /\ at \in Times
  BY InUse DEF Replace, Inv
<1>2. Unrevoked(old) /\ session[old] \in AuthSession
  BY <1>1 DEF Replace, Unrevoked, Stored, Inv, TypeOK
<1>3. dead \in AuthSession /\ dead.login = session[old].login
        /\ dead.expiresAt = session[old].expiresAt /\ dead.revokedAt # 0
  <2>1. at # 0
    BY <1>1, SessionAssumption DEF Times
  <2> HIDE DEF at, old
  <2> QED
    BY <1>1, <1>2, <2>1 DEF AuthSession, Reasons
<1>4. row \in AuthSession /\ row.login = session[old].login
        /\ row.expiresAt = session[old].expiresAt /\ row.revokedAt = 0
  BY <1>1, <1>2 DEF AuthSession
<1>5. session' = [session EXCEPT ![old] = dead, ![s] = row]
  BY DEF Replace, Swap
<1>6. s \notin issued /\ issued' = issued \cup {s} /\ UNCHANGED opened
  BY DEF Replace, Swap
<1>7. ~Stored(s)
  BY <1>6 DEF RowsDescend, Inv
<1> HIDE DEF dead, row, at, old
<1> QED
  BY <1>1, <1>2, <1>3, <1>4, <1>5, <1>6, <1>7

LEMMA ReplaceInv ==
  ASSUME Inv, NEW c \in Calls, NEW s \in Sessions, Replace(c, s)
  PROVE  Inv'
<1>1. PICK old \in Sessions, dead, row \in AuthSession :
           /\ session' = [session EXCEPT ![old] = dead, ![s] = row]
           /\ Unrevoked(old) /\ ~Stored(s)
           /\ dead.login = session[old].login /\ dead.expiresAt = session[old].expiresAt
           /\ dead.revokedAt # 0
           /\ row.login = session[old].login /\ row.expiresAt = session[old].expiresAt
           /\ row.revokedAt = 0
           /\ s \notin issued /\ issued' = issued \cup {s} /\ UNCHANGED opened
  BY ReplaceRow
<1>2. CallsOK'
  BY CallsAreOK, DoneOK DEF Replace, Swap
<1>3. session' \in [Sessions -> AuthSession \cup {NoSession}] /\ issued' \in SUBSET Sessions
  BY <1>1 DEF Inv, TypeOK
<1>4. old # s /\ session'[old] = dead /\ session'[s] = row
  BY <1>1 DEF Inv, TypeOK, Unrevoked
<1>5. \A t \in Sessions : (t # s /\ t # old) => session'[t] = session[t]
  BY <1>1 DEF Inv, TypeOK
<1>6. ~Unrevoked(old)'
  BY <1>1, <1>4 DEF Unrevoked
<1>7. ASSUME NEW t \in Sessions, Unrevoked(t)'
      PROVE  t = s \/ (t # s /\ t # old /\ session'[t] = session[t] /\ Unrevoked(t))
  BY <1>5, <1>6, <1>7 DEF Unrevoked, Stored
<1>8. RowsDescend'
  <2> SUFFICES ASSUME NEW t \in Sessions, Stored(t)'
               PROVE  /\ t \in issued' /\ opened'[session'[t].login] # 0
                      /\ Unrevoked(t)' => session'[t].expiresAt = opened'[session'[t].login]
    BY DEF RowsDescend
  <2>1. CASE t = s
    BY <2>1, <1>1, <1>4 DEF RowsDescend, Unrevoked, Inv
  <2>2. CASE t = old
    BY <2>2, <1>1, <1>4, <1>6 DEF RowsDescend, Unrevoked, Inv
  <2>3. CASE t # s /\ t # old
    <3>1. session'[t] = session[t] /\ Stored(t)
      BY <2>3, <1>5 DEF Stored
    <3> QED
      BY <3>1, <1>1 DEF RowsDescend, Unrevoked, Stored, Inv
  <2> QED
    BY <2>1, <2>2, <2>3
<1>9. OneCarrier'
  <2> SUFFICES ASSUME NEW t \in Sessions, NEW u \in Sessions, Unrevoked(t)', Unrevoked(u)',
                      session'[t].login = session'[u].login
               PROVE  t = u
    BY DEF OneCarrier
  <2>1. \A v \in Sessions : (Unrevoked(v) /\ session[v].login = session[old].login) => v = old
    BY <1>1 DEF OneCarrier, Inv
  <2>2. \A v \in Sessions :
           (Unrevoked(v)' /\ v # s) => session'[v].login # session'[s].login
    BY <2>1, <1>1, <1>4, <1>7
  <2>3. CASE t = s \/ u = s
    BY <2>2, <2>3
  <2>4. CASE t # s /\ u # s
    <3>1. Unrevoked(t) /\ session'[t] = session[t] /\ Unrevoked(u) /\ session'[u] = session[u]
      BY <2>4, <1>7
    <3> QED
      BY <3>1 DEF OneCarrier, Inv
  <2> QED
    BY <2>3, <2>4
<1> QED
  BY <1>1, <1>2, <1>3, <1>8, <1>9, InvFromParts DEF Replace, Swap, Inv, TypeOK

(* Every step keeps the invariant.                                           *)
LEMMA NextInv == Inv /\ [Next]_vars => Inv'
<1> SUFFICES ASSUME Inv, [Next]_vars PROVE Inv'
  OBVIOUS
<1>1. ASSUME NEW c \in Calls, NEW a \in Accounts, BeginLogin(c, a) PROVE Inv'
  BY <1>1, BeginLoginInv
<1>2. ASSUME NEW c \in Calls, NEW l \in Logins, NEW s \in Sessions, CommitLogin(c, l, s)
      PROVE  Inv'
  BY <1>2, CommitLoginInv
<1>3. ASSUME NEW c \in Calls,
             \/ \E s \in Sessions, op \in {"use", "rotate"} : BeginUse(c, s, op)
             \/ Identify(c) \/ LookAgain(c) \/ Confirm(c)
      PROVE  Inv'
  BY <1>3, ReadingInv
<1>4. ASSUME NEW c \in Calls, Touch(c) \/ Expel(c) \/ AbandonCall(c) PROVE Inv'
  BY <1>4, TouchInv, ExpelInv, AbandonCallInv
<1>5. ASSUME NEW c \in Calls, NEW s \in Sessions, Replace(c, s) PROVE Inv'
  BY <1>5, ReplaceInv
<1>6. ASSUME \/ \E s \in Sessions : Logout(s)
             \/ \E a \in Accounts : RevokeAll(a)
             \/ \E t \in Times : CleanUp(t)
      PROVE  Inv'
  BY <1>6, OutsideInv
<1>7. ASSUME Tick \/ (\E a \in Accounts : IdentityChanges(a)) \/ UNCHANGED vars PROVE Inv'
  BY <1>7, EnvironmentInv
<1> QED
  BY <1>1, <1>2, <1>3, <1>4, <1>5, <1>6, <1>7, FreshIsSession DEF Next

(* The invariant holds in every reachable state.                             *)
LEMMA Invariance == Spec => []Inv
BY InitInv, NextInv, PTL DEF Spec

(* The rows, the requests in progress and the history have their types, for  *)
(* any number of logins, accounts, sessions and requests.                    *)
THEOREM TypeCorrect == Spec => []TypeOK
<1>1. Inv => TypeOK
  BY DEF Inv
<1> QED
  BY <1>1, Invariance, PTL

-----------------------------------------------------------------------------
(***************************************************************************)
(* The first revocation decides.                                           *)
(***************************************************************************)
Revoked(s) == Stored(s) /\ ~Unrevoked(s)

Stands(s) ==
  \/ session'[s] = NoSession
  \/ session'[s].revokedAt = session[s].revokedAt /\ session'[s].reason = session[s].reason

LEMMA StepStands == Inv /\ [Next]_vars => \A s \in Sessions : Revoked(s) => Stands(s)
<1> SUFFICES ASSUME Inv, [Next]_vars, NEW s \in Sessions, Revoked(s) PROVE Stands(s)
  OBVIOUS
<1>1. ASSUME NEW c \in Calls, NEW l \in Logins, NEW t \in Sessions, CommitLogin(c, l, t)
      PROVE  Stands(s)
  <2>1. session'[s] = session[s]
    BY <1>1, CommitLoginRow DEF Revoked, Inv, TypeOK
  <2> QED
    BY <2>1 DEF Stands
<1>2. ASSUME NEW c \in Calls, NEW t \in Sessions, Replace(c, t)
      PROVE  Stands(s)
  <2>1. session'[s] = session[s]
    BY <1>2, ReplaceRow DEF Revoked, Inv, TypeOK
  <2> QED
    BY <2>1 DEF Stands
<1>3. ASSUME NEW c \in Calls, Touch(c)
      PROVE  Stands(s)
  <2>1. CASE s = call[c].session
    <3> DEFINE row == [session[s] EXCEPT !.lastSeenAt = call[c].at]
    <3>1. session[s] \in AuthSession
      BY DEF Revoked, Stored, Inv, TypeOK
    <3>2. session'[s] = row
      BY <1>3, <2>1 DEF Touch, Inv, TypeOK
    <3>3. row.revokedAt = session[s].revokedAt /\ row.reason = session[s].reason
      BY <3>1 DEF AuthSession
    <3> QED
      BY <3>2, <3>3 DEF Stands
  <2>2. CASE s # call[c].session
    BY <1>3, <2>2 DEF Touch, Inv, TypeOK, Stands
  <2> QED
    BY <2>1, <2>2
<1>4. ASSUME NEW rows, NEW at, NEW reason, Revoke(rows, at, reason)
      PROVE  Stands(s)
  <2>1. session'[s] = session[s]
    BY <1>4 DEF Revoke, Revoked
  <2> QED
    BY <2>1 DEF Stands
<1>5. ASSUME NEW t \in Times, CleanUp(t)
      PROVE  Stands(s)
  <2>1. session'[s] = NoSession \/ session'[s] = session[s]
    BY <1>5 DEF CleanUp
  <2> QED
    BY <2>1 DEF Stands
<1>6. CASE UNCHANGED session
  BY <1>6 DEF Stands
<1> QED
  BY <1>1, <1>2, <1>3, <1>4, <1>5, <1>6, FreshIsSession
  DEF Next, vars, rowVars, BeginLogin, BeginUse, Look, Identify, Expel, LookAgain, Confirm,
      AbandonCall, Logout, RevokeAll, IdentityChanges, Tick

(* No step rewrites the time or the reason of a revocation, whichever of     *)
(* logout, idle timeout, rotation and revocation of the account race.        *)
THEOREM RevocationCorrect == Spec => RevocationStands
<1>1. Inv /\ [Next]_vars =>
        \A s \in Sessions :
          (Stored(s) /\ ~Unrevoked(s)) =>
            \/ session'[s] = NoSession
            \/ /\ session'[s].revokedAt = session[s].revokedAt
               /\ session'[s].reason = session[s].reason
  BY StepStands DEF Revoked, Stands
<1> QED
  BY <1>1, Invariance, PTL DEF Spec, RevocationStands

-----------------------------------------------------------------------------
(***************************************************************************)
(* The refinement.                                                         *)
(***************************************************************************)
Carriers == [l \in Logins |-> Carrier(l)]
Expiries == [l \in Logins |-> Expiry(l)]

(* What the abstract variables say, in terms of the rows.                    *)
CarrierKnown(l) ==
  /\ \A s \in Sessions : Carries(s, l) => Carrier(l) = s
  /\ (\A s \in Sessions : ~Carries(s, l)) =>
       Carrier(l) = (IF opened[l] = 0 THEN "none" ELSE "over")
  /\ \A s \in Sessions : Carries(s, l) => opened[l] # 0
  /\ Expiry(l) = opened[l]

AllCarriersKnown == \A l \in Logins : CarrierKnown(l)

LEMMA CarriersKnown == Inv => AllCarriersKnown
<1> SUFFICES ASSUME Inv, NEW l \in Logins PROVE CarrierKnown(l)
  BY DEF AllCarriersKnown
<1>1. \A s, t \in Sessions : (Carries(s, l) /\ Carries(t, l)) => s = t
  BY DEF Inv, OneCarrier, Carries
<1>2. \A s \in Sessions : Carries(s, l) => Carrier(l) = s
  BY <1>1 DEF Carrier
<1>3. (\A s \in Sessions : ~Carries(s, l)) =>
        Carrier(l) = (IF opened[l] = 0 THEN "none" ELSE "over")
  BY DEF Carrier
<1>4. \A s \in Sessions : Carries(s, l) => opened[l] # 0 /\ session[s].expiresAt = opened[l]
  BY DEF Inv, RowsDescend, Carries, Unrevoked
<1>5. Expiry(l) = opened[l]
  BY <1>2, <1>3, <1>4, SessionAssumption DEF Expiry
<1> QED
  BY <1>2, <1>3, <1>4, <1>5 DEF CarrierKnown

(* A login whose rows and history stay as they are keeps its carrier.        *)
LEMMA CarrierKept ==
  ASSUME NEW l \in Logins, CarrierKnown(l), CarrierKnown(l)',
         \A s \in Sessions : Carries(s, l)' <=> Carries(s, l), opened'[l] = opened[l]
  PROVE  Carrier(l)' = Carrier(l)
<1>1. CASE \E s \in Sessions : Carries(s, l)
  BY <1>1 DEF CarrierKnown
<1>2. CASE \A s \in Sessions : ~Carries(s, l)
  BY <1>2 DEF CarrierKnown
<1> QED
  BY <1>1, <1>2

LEMMA CarriersKnownInStep ==
  ASSUME Inv, Inv', NEW l \in Logins
  PROVE  CarrierKnown(l) /\ CarrierKnown(l)'
<1>1. AllCarriersKnown'
  BY CarriersKnown, PTL
<1> QED
  BY <1>1, CarriersKnown DEF AllCarriersKnown

(* A step that stores nothing new ends the logins whose carrier it revokes   *)
(* or deletes.                                                               *)
LEMMA QuietEnds ==
  ASSUME Inv, Inv', NothingNew
  PROVE  Lifecycle!Next
<1>1. ASSUME NEW l \in Logins PROVE CarrierKnown(l) /\ CarrierKnown(l)' /\ opened'[l] = opened[l]
  BY CarriersKnownInStep DEF NothingNew
<1>2. ASSUME NEW l \in Logins, NEW s \in Sessions, Carries(s, l)'
      PROVE  Carries(s, l)
  BY <1>2 DEF NothingNew, Descends, Carries, Unrevoked, Stored
<1> DEFINE ended == {l \in Logins : Carrier(l) \in Sessions /\ Carrier(l)' # Carrier(l)}
<1>3. ASSUME NEW l \in Logins
      PROVE  Carrier(l)' = IF l \in ended THEN "over" ELSE Carrier(l)
  <2>1. CASE \E s \in Sessions : Carries(s, l)'
    <3>1. Carrier(l)' = Carrier(l)
      BY <2>1, <1>1, <1>2 DEF CarrierKnown
    <3> QED
      BY <3>1
  <2>2. CASE \A s \in Sessions : ~Carries(s, l)'
    <3>1. CASE \E s \in Sessions : Carries(s, l)
      <4>1. Carrier(l)' = "over" /\ Carrier(l) \in Sessions
        BY <3>1, <2>2, <1>1 DEF CarrierKnown
      <4> QED
        BY <4>1, SessionAssumption
    <3>2. CASE \A s \in Sessions : ~Carries(s, l)
      BY <3>2, <2>2, <1>1, CarrierKept
    <3> QED
      BY <3>1, <3>2
  <2> QED
    BY <2>1, <2>2
<1>4. Expiries' = Expiries
  BY <1>1 DEF Expiries, CarrierKnown
<1>5. Carriers' = [l \in Logins |-> IF l \in ended THEN "over" ELSE Carriers[l]]
  BY <1>3 DEF Carriers
<1>6. ended \in SUBSET Logins /\ \A l \in ended : Carriers[l] \in Sessions
  BY DEF Carriers
<1> HIDE DEF ended
<1>7. Lifecycle!End(ended)
  BY <1>4, <1>5, <1>6 DEF Lifecycle!End, Carriers, Expiries, NothingNew
<1> QED
  BY <1>6, <1>7 DEF Lifecycle!Next

(* A login that is committed opens, carried by its fresh row.                *)
LEMMA CommitOpens ==
  ASSUME Inv, Inv', NEW c \in Calls, NEW l \in Logins, NEW s \in Sessions,
         CommitLogin(c, l, s)
  PROVE  Lifecycle!Open(l, s)
<1>1. PICK row \in AuthSession :
           /\ session' = [session EXCEPT ![s] = row]
           /\ row.login = l /\ row.revokedAt = 0
           /\ opened' = [opened EXCEPT ![l] = row.expiresAt]
           /\ row.expiresAt \in Times
           /\ issued' = issued \cup {s}
           /\ ~Stored(s)
           /\ \A t \in Sessions : Stored(t) => session[t].login # l
  BY CommitLoginRow
<1>2. session'[s] = row /\ \A t \in Sessions : t # s => session'[t] = session[t]
  BY <1>1 DEF Inv, TypeOK
<1>3. Carrier(l) = "none"
  BY <1>1, CarriersKnownInStep DEF CommitLogin, CarrierKnown, Carries, Unrevoked
<1>4. Carrier(l)' = s
  <2>1. Carries(s, l)'
    BY <1>1, <1>2, SessionAssumption DEF Carries, Unrevoked, Stored
  <2> QED
    BY <2>1, CarriersKnownInStep DEF CarrierKnown
<1>5. ASSUME NEW m \in Logins, m # l PROVE Carrier(m)' = Carrier(m)
  <2>1. opened'[m] = opened[m]
    BY <1>1, <1>5 DEF Inv, TypeOK
  <2>2. \A t \in Sessions : Carries(t, m)' <=> Carries(t, m)
    BY <1>1, <1>2, <1>5 DEF Carries, Unrevoked, Stored
  <2> QED
    BY <2>1, <2>2, CarriersKnownInStep, CarrierKept
<1>6. Carriers' = [Carriers EXCEPT ![l] = s]
  BY <1>4, <1>5 DEF Carriers
<1>7. Expiries = opened /\ Expiries' = opened'
  BY <1>1, CarriersKnownInStep DEF Expiries, CarrierKnown, Inv, TypeOK
<1>8. opened'[l] \in Nat /\ opened' = [opened EXCEPT ![l] = opened'[l]]
  BY <1>1, SessionAssumption DEF Inv, TypeOK, Times
<1>9. s \in Sessions \ issued /\ issued' = issued \cup {s}
  BY DEF CommitLogin
<1>10. Carriers[l] = "none"
  BY <1>3 DEF Carriers
<1> QED
  BY <1>6, <1>7, <1>8, <1>9, <1>10 DEF Lifecycle!Open, Lifecycle!Issue, Carriers, Expiries

(* A replacement takes its login over.                                       *)
LEMMA ReplaceRotates ==
  ASSUME Inv, Inv', NEW c \in Calls, NEW s \in Sessions, Replace(c, s)
  PROVE  \E l \in Logins : Lifecycle!Rotate(l, s)
<1>1. PICK old \in Sessions, dead, row \in AuthSession :
           /\ session' = [session EXCEPT ![old] = dead, ![s] = row]
           /\ Unrevoked(old) /\ ~Stored(s)
           /\ dead.login = session[old].login /\ dead.expiresAt = session[old].expiresAt
           /\ dead.revokedAt # 0
           /\ row.login = session[old].login /\ row.expiresAt = session[old].expiresAt
           /\ row.revokedAt = 0
           /\ s \notin issued /\ issued' = issued \cup {s} /\ UNCHANGED opened
  BY ReplaceRow
<1>2. PICK l \in Logins : l = session[old].login
  BY <1>1 DEF Unrevoked, Stored, Inv, TypeOK, AuthSession
<1>3. old # s /\ session'[old] = dead /\ session'[s] = row
  BY <1>1 DEF Inv, TypeOK, Unrevoked
<1>4. \A t \in Sessions : (t # s /\ t # old) => session'[t] = session[t]
  BY <1>1 DEF Inv, TypeOK
<1>5. Carrier(l) = old
  BY <1>1, <1>2, CarriersKnownInStep DEF CarrierKnown, Carries
<1>6. Carrier(l)' = s
  <2>1. Carries(s, l)'
    BY <1>1, <1>2, <1>3, SessionAssumption DEF Carries, Unrevoked, Stored
  <2> QED
    BY <2>1, CarriersKnownInStep DEF CarrierKnown
<1>7. ASSUME NEW m \in Logins, m # l PROVE Carrier(m)' = Carrier(m)
  <2>1. \A t \in Sessions : Carries(t, m)' <=> Carries(t, m)
    BY <1>1, <1>2, <1>3, <1>4, <1>7 DEF Carries, Unrevoked, Stored
  <2> QED
    BY <2>1, <1>1, CarriersKnownInStep, CarrierKept
<1>8. Carriers' = [Carriers EXCEPT ![l] = s]
  BY <1>6, <1>7 DEF Carriers
<1>9. Expiries = opened /\ Expiries' = opened'
  BY <1>1, CarriersKnownInStep DEF Expiries, CarrierKnown, Inv, TypeOK
<1>10. Carriers[l] \in Sessions
  BY <1>5 DEF Carriers
<1>11. Lifecycle!Rotate(l, s)
  BY <1>1, <1>8, <1>9, <1>10
  DEF Lifecycle!Rotate, Lifecycle!Issue, Carriers, Expiries
<1> QED
  BY <1>2, <1>11

(* A step that leaves rows and history alone ends no login.                  *)
LEMMA NextSimulates == Inv /\ Inv' /\ [Next]_vars => Lifecycle!Next
<1> SUFFICES ASSUME Inv, Inv', [Next]_vars PROVE Lifecycle!Next
  OBVIOUS
<1>1. ASSUME NEW c \in Calls, NEW l \in Logins, NEW s \in Sessions, CommitLogin(c, l, s)
      PROVE  Lifecycle!Next
  BY <1>1, CommitOpens DEF Lifecycle!Next
<1>2. ASSUME NEW c \in Calls, NEW s \in Sessions, Replace(c, s)
      PROVE  Lifecycle!Next
  BY <1>2, ReplaceRotates DEF Lifecycle!Next
<1>3. ASSUME NEW c \in Calls, Touch(c) \/ Expel(c)
      PROVE  Lifecycle!Next
  BY <1>3, TouchQuiet, ExpelQuiet, QuietEnds
<1>4. ASSUME \/ \E s \in Sessions : Logout(s)
             \/ \E a \in Accounts : RevokeAll(a)
             \/ \E t \in Times : CleanUp(t)
      PROVE  Lifecycle!Next
  BY <1>4, OutsideQuiet, QuietEnds
<1>5. CASE UNCHANGED rowVars
  BY <1>5, StillNothingNew, QuietEnds DEF Inv
<1> QED
  BY <1>1, <1>2, <1>3, <1>4, <1>5, FreshIsSession
  DEF Next, vars, BeginLogin, BeginUse, Look, Identify, LookAgain, Confirm,
      AbandonCall, IdentityChanges, Tick

(* Initially no login is open.                                               *)
LEMMA InitSimulates == Init => Lifecycle!Init
<1> SUFFICES ASSUME Init PROVE Lifecycle!Init
  OBVIOUS
<1>1. ASSUME NEW l \in Logins PROVE Carrier(l) = "none" /\ Expiry(l) = 0
  <2>1. CarrierKnown(l) /\ opened[l] = 0
    BY InitInv, CarriersKnown DEF Init, AllCarriersKnown
  <2>2. \A s \in Sessions : ~Carries(s, l)
    BY DEF Init, Carries, Unrevoked, Stored
  <2> QED
    BY <2>1, <2>2 DEF CarrierKnown
<1> QED
  BY <1>1 DEF Init, Lifecycle!Init

(* The session component implements the lifecycle of logins: one carrier at  *)
(* a time, handed on with its expiry, and no return once the login is over.  *)
THEOREM LoginsRefined == Spec => RefinesLogins
<1>1. Inv /\ Inv' /\ [Next]_vars =>
        [Lifecycle!Next]_<< [l \in Logins |-> Carrier(l)], [l \in Logins |-> Expiry(l)], issued >>
  BY NextSimulates
<1> QED
  BY <1>1, InitSimulates, Invariance, PTL DEF Spec, RefinesLogins, Lifecycle!Spec, Lifecycle!loginVars
=============================================================================
