---------------------------- MODULE LoginLifecycle ----------------------------
(***************************************************************************)
(* What the session component promises about one login: at any moment at   *)
(* most one session carries it; rotation replaces that session by a fresh  *)
(* one and keeps the absolute expiry; a login that has ended stays ended.  *)
(***************************************************************************)
EXTENDS Integers

CONSTANTS Logins, Sessions, None, Over

VARIABLES
  carrier,   \* None, the session that carries the login, or Over
  expiry,    \* the absolute expiry of the login (0 before it is opened)
  issued     \* the sessions that have ever carried a login

loginVars == << carrier, expiry, issued >>

Init ==
  /\ carrier = [l \in Logins |-> None]
  /\ expiry = [l \in Logins |-> 0]
  /\ issued = {}

(* A session that never carried a login takes this one.                      *)
Issue(l, s) ==
  /\ s \in Sessions \ issued
  /\ carrier' = [carrier EXCEPT ![l] = s]
  /\ issued' = issued \cup {s}

Open(l, s) ==
  /\ carrier[l] = None
  /\ Issue(l, s)
  /\ expiry'[l] \in Nat
  /\ expiry' = [expiry EXCEPT ![l] = expiry'[l]]

Rotate(l, s) ==
  /\ carrier[l] \in Sessions
  /\ Issue(l, s)
  /\ UNCHANGED expiry

(* Several logins may end at once.                                           *)
End(ended) ==
  /\ \A l \in ended : carrier[l] \in Sessions
  /\ carrier' = [l \in Logins |-> IF l \in ended THEN Over ELSE carrier[l]]
  /\ UNCHANGED << expiry, issued >>

Next ==
  \/ \E l \in Logins, s \in Sessions : Open(l, s) \/ Rotate(l, s)
  \/ \E ended \in SUBSET Logins : End(ended)

Spec == Init /\ [][Next]_loginVars
=============================================================================
