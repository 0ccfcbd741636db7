------------------------------ MODULE LeaveRules ------------------------------
(***************************************************************************)
(* LeaveRulesService: how many days a leave counts, and by which rule.     *)
(* calculate looks for the published policy that covers the whole range;   *)
(* without one it uses a provisional table, where the configuration lets   *)
(* it.  Everything is about one affiliation; a caller names a leave type   *)
(* and the scope (the position group) of the employee.                     *)
(*                                                                         *)
(* Holidays are maintained outside this code, and constant here.           *)
(***************************************************************************)
EXTENDS Integers, FiniteSets

CONSTANTS
  LeaveTypes,          \* the active leave types
  Scopes,              \* employeeTypeScope of employees
  ALL,                 \* the scope of a policy that is for everybody
  COUNTING_RULES,      \* the provisional table: leave type |-> counting mode
  ProvisionalAllowed,  \* ONEDATA_ALLOW_PROVISIONAL_LEAVE_RULES, or not production
  Weekend,             \* the dates that are a Saturday or Sunday
  Holidays,            \* the affiliation's holidays
  Policies,            \* ids of policy profiles
  Codes,               \* codes of policy profiles
  PROVISIONAL,         \* the calculation basis that is no policy
  NoPolicy,            \* a profile row that does not exist
  LastDate             \* bound: the last date of the model

Dates == 1 .. LastDate
NoEnd == LastDate + 1   \* effectiveTo that is null
Modes == { "WORKING_DAYS", "CALENDAR_DAYS" }

(* A policy profile with its rules: leave type |-> counting mode.            *)
PolicyProfile ==
  [ code : Codes, scope : Scopes \cup {ALL}, from : Dates, to : Dates \cup {NoEnd},
    rules : UNION { [ types -> Modes ] : types \in SUBSET LeaveTypes },
    legalBasis : BOOLEAN, status : {"DRAFT", "PUBLISHED"} ]

ASSUME RulesAssumption ==
  /\ LastDate \in Nat \ {0}
  /\ ALL \notin Scopes
  /\ DOMAIN COUNTING_RULES \subseteq LeaveTypes
  /\ \A t \in DOMAIN COUNTING_RULES : COUNTING_RULES[t] \in Modes
  /\ ProvisionalAllowed \in BOOLEAN
  /\ Weekend \subseteq Dates /\ Holidays \subseteq Dates
  /\ PROVISIONAL \notin Policies
  /\ NoPolicy \notin PolicyProfile

(* What createDraft asks: a leave of this type, from the first to the last   *)
(* of these dates, for an employee of this scope.                            *)
Question ==
  { q \in [ type : LeaveTypes, scope : Scopes, first : Dates, last : Dates ] : q.first <= q.last }
Calculation == [ basis : Policies \cup {PROVISIONAL}, mode : Modes, days : Nat ]

(***************************************************************************)
(* countLeaveDays.  Holidays are read only for working days.               *)
(***************************************************************************)
Counts(date, mode) == mode = "CALENDAR_DAYS" \/ date \notin Weekend \cup Holidays

(* Mutant: the last day of the range is left out.                            *)
CountLeaveDaysShort(first, last, mode) ==
  LET counted[cursor \in first .. last + 1] ==
        IF cursor >= last THEN 0
        ELSE counted[cursor + 1] + (IF Counts(cursor, mode) THEN 1 ELSE 0)
  IN  counted[first]

CountLeaveDays(first, last, mode) ==
  LET counted[cursor \in first .. last + 1] ==
        IF cursor > last THEN 0
        ELSE counted[cursor + 1] + (IF Counts(cursor, mode) THEN 1 ELSE 0)
  IN  counted[first]

(***************************************************************************)
(* calculate, from the profile rows.                                       *)
(***************************************************************************)
Exists(rows, p) == rows[p] # NoPolicy
IsPublished(rows, p) == Exists(rows, p) /\ rows[p].status = "PUBLISHED"

Covering(rows, scope, q) ==
  { p \in Policies :
      /\ IsPublished(rows, p) /\ rows[p].scope = scope
      /\ rows[p].from <= q.first /\ q.last <= rows[p].to }

(* The first of them by descending effectiveFrom; any of those that begin    *)
(* together.                                                                 *)
Latest(rows, found) == { p \in found : \A o \in found : rows[o].from <= rows[p].from }

(* Mutant: the latest policy decides, whichever scope it has.                *)
DecidingOfAnyScope(rows, q) ==
  Latest(rows, Covering(rows, q.scope, q) \cup Covering(rows, ALL, q))

(* A policy of the very scope goes before one for everybody.                 *)
Deciding(rows, q) ==
  LET exact == Covering(rows, q.scope, q)
  IN  Latest(rows, IF exact # {} THEN exact ELSE Covering(rows, ALL, q))

(* A policy decides even when it has no rule for the type: then, and when    *)
(* the provisional table has none or is not allowed, calculate refuses.      *)
Rules(rows, q) ==
  IF Deciding(rows, q) # {}
  THEN { [ basis |-> p, mode |-> rows[p].rules[q.type] ] :
           p \in { o \in Deciding(rows, q) : q.type \in DOMAIN rows[o].rules } }
  ELSE IF ProvisionalAllowed /\ q.type \in DOMAIN COUNTING_RULES
       THEN { [ basis |-> PROVISIONAL, mode |-> COUNTING_RULES[q.type] ] }
       ELSE {}

(* The possible answers: none (calculate refuses), or more than one when the *)
(* database may return either of two policies.  A range without a day that   *)
(* counts is refused.                                                        *)
Calculate(rows, q) ==
  { c \in { [ basis |-> r.basis, mode |-> r.mode,
              days |-> CountLeaveDays(q.first, q.last, r.mode) ] : r \in Rules(rows, q) } :
      c.days >= 1 }
=============================================================================
