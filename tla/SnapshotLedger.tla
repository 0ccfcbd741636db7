---------------------------- MODULE SnapshotLedger ----------------------------
(***************************************************************************)
(* What the snapshot integration promises for one period: a ledger of      *)
(* distinct contents that only grows, a consumer that applies entries in   *)
(* ascending order (it may skip some), and confirmations that never run    *)
(* ahead of the consumer.                                                  *)
(***************************************************************************)
EXTENDS Integers, Sequences

CONSTANT Content

VARIABLES
  contents,    \* the content of each version, from version 1 on
  applied,     \* the versions the consumer has applied
  confirmed    \* the versions whose application is on record at the producer

ledgerVars == << contents, applied, confirmed >>

Init == contents = << >> /\ applied = {} /\ confirmed = {}

AddVersion(x) ==
  /\ \A v \in 1 .. Len(contents) : contents[v] # x
  /\ contents' = Append(contents, x)
  /\ UNCHANGED << applied, confirmed >>

Apply(v) ==
  /\ \A w \in applied : w < v
  /\ applied' = applied \cup {v}
  /\ UNCHANGED << contents, confirmed >>

Confirm(v) ==
  /\ v \in applied
  /\ confirmed' = confirmed \cup {v}
  /\ UNCHANGED << contents, applied >>

Next ==
  \/ \E x \in Content : AddVersion(x)
  \/ \E v \in 1 .. Len(contents) : Apply(v) \/ Confirm(v)

Spec == Init /\ [][Next]_ledgerVars
=============================================================================
