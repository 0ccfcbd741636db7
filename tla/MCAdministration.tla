--------------------------- MODULE MCAdministration ---------------------------
(* Four dates, of which the third is a Saturday and the fourth a holiday;     *)
(* policies that meet, overlap, or are for everybody.                         *)
EXTENDS Administration, TLC

CONSTANTS annual, hajj, doctor

MCCountingRules == annual :> "WORKING_DAYS" @@ hajj :> "CALENDAR_DAYS"

Profile(c, scope, from, to, rules, basis) ==
  [ code |-> c, scope |-> scope, from |-> from, to |-> to, rules |-> rules,
    legalBasis |-> basis, status |-> "DRAFT" ]

MCDrafts ==
  { Profile(1, doctor, 1, 2, annual :> "WORKING_DAYS", TRUE),
    Profile(1, doctor, 2, NoEnd, annual :> "CALENDAR_DAYS", TRUE),
    Profile(2, doctor, 3, NoEnd, hajj :> "WORKING_DAYS", TRUE),
    Profile(2, ALL, 2, NoEnd, MCCountingRules, TRUE),
    Profile(2, ALL, 1, 3, hajj :> "CALENDAR_DAYS", FALSE) }

Symmetry == Permutations(Admins) \cup Permutations(Policies) \cup Permutations(Employees)
=============================================================================
