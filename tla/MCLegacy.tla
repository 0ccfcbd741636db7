------------------------------- MODULE MCLegacy -------------------------------
(* Two leaves of one person, who belongs to the tenant: they overlap, and the *)
(* first reaches into the month, which is the second date.  The first may go  *)
(* all the way to VOID; the second is confirmed, or voided, at most.          *)
EXTENDS LegacySnapshots, TLC

CONSTANTS p1, l1, l2
MCMemberships == { [ person |-> p1, first |-> 1, last |-> LastDate ] }
MCForms ==
  ( l1 :> { [ person |-> p1, first |-> 1, last |-> LastDate ] } ) @@
  ( l2 :> { [ person |-> p1, first |-> 1, last |-> 1 ] } )
MCMaxRevisions == ( l1 :> 4 ) @@ ( l2 :> 2 )
Symmetry == Permutations(Requests)
=============================================================================
