--------------------------- MODULE MCLeaveSnapshots ---------------------------
(* The calls are interchangeable.                                            *)
EXTENDS LeaveSnapshots, TLC

Symmetry == Permutations(Calls)
=============================================================================
