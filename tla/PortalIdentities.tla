--------------------------- MODULE PortalIdentities ---------------------------
(***************************************************************************)
(* PeopleService.mapPortalIdentity: an administrator ties an account of    *)
(* the Portal to an employee.  The employee and the account's mapping are  *)
(* read first; the mapping is then written by its unique key, whatever it  *)
(* has become.  PeopleSync makes employees active and inactive meanwhile.  *)
(***************************************************************************)
EXTENDS Integers, FiniteSets

CONSTANTS
  Subjects,   \* accounts of the Portal (externalSubject)
  Employees,
  Mappers,    \* slots for requests in progress
  NoMap,      \* a slot without a request
  NoOne       \* an account that is not mapped

MapRequest ==
  [ subject : Subjects, employee : Employees, seen : Employees \cup {NoOne} ]

ASSUME IdentityAssumption == NoOne \notin Employees /\ NoMap \notin MapRequest

VARIABLES
  active,      \* the active employees, as PeopleSync leaves them
  mapping,     \* ExternalIdentityMapping.employeeId by subject; nothing
               \* deactivates a mapping
  mapRequest   \* what each request has read

identityVars == << active, mapping, mapRequest >>

IdentityInit ==
  /\ active \in SUBSET Employees
  /\ mapping = [ s \in Subjects |-> NoOne ]
  /\ mapRequest = [ a \in Mappers |-> NoMap ]

(* A synchronisation commits.                                                *)
EmployeesFollow ==
  /\ active' \in SUBSET Employees
  /\ UNCHANGED << mapping, mapRequest >>

(* Mutant: a mapping to another employee is no reason to refuse.             *)
BeginMapAnyway(a, s, e) ==
  /\ mapRequest[a] = NoMap
  /\ e \in active
  /\ mapRequest' = [ mapRequest EXCEPT ![a] = [ subject |-> s, employee |-> e, seen |-> mapping[s] ] ]
  /\ UNCHANGED << active, mapping >>

(* The employee is active, and the account is free or already his.           *)
BeginMap(a, s, e) ==
  /\ mapRequest[a] = NoMap
  /\ e \in active
  /\ mapping[s] \in { NoOne, e }
  /\ mapRequest' = [ mapRequest EXCEPT ![a] = [ subject |-> s, employee |-> e, seen |-> mapping[s] ] ]
  /\ UNCHANGED << active, mapping >>

(* The upsert; its audit event is in the same transaction.                   *)
CommitMap(a) ==
  /\ mapRequest[a] # NoMap
  /\ mapping' = [ mapping EXCEPT ![mapRequest[a].subject] = mapRequest[a].employee ]
  /\ mapRequest' = [ mapRequest EXCEPT ![a] = NoMap ]
  /\ UNCHANGED active

(* The transaction fails, or two inserts meet at the unique key.             *)
AbandonMap(a) ==
  /\ mapRequest[a] # NoMap
  /\ mapRequest' = [ mapRequest EXCEPT ![a] = NoMap ]
  /\ UNCHANGED << active, mapping >>

MapStep(a) ==
  \/ \E s \in Subjects, e \in Employees : BeginMap(a, s, e)
  \/ CommitMap(a) \/ AbandonMap(a)

(***************************************************************************)
(* Properties.                                                             *)
(***************************************************************************)
IdentityTypeOK ==
  /\ active \subseteq Employees
  /\ mapping \in [ Subjects -> Employees \cup {NoOne} ]
  /\ mapRequest \in [ Mappers -> MapRequest \cup {NoMap} ]

(* "The Portal identity is already mapped to another employee": a mapping is *)
(* never undone, and goes to another employee only when the request that     *)
(* moves it had read the account before the mapping it overwrites was made.  *)
MovesUnseen ==
  \A s \in Subjects :
    mapping[s] # NoOne /\ mapping'[s] # mapping[s] =>
      \E a \in Mappers :
        /\ mapRequest[a] # NoMap /\ mapRequest'[a] = NoMap
        /\ mapRequest[a].subject = s /\ mapRequest[a].employee = mapping'[s]
        /\ mapRequest[a].seen # mapping[s]
MappingMovesOnlyByRace == [][MovesUnseen]_identityVars
=============================================================================
