---------------------------- MODULE Administration ----------------------------
(***************************************************************************)
(* Administrators at work: each has one request in progress at a time, to  *)
(* publish a policy (LeavePolicies) or to map an identity                  *)
(* (PortalIdentities).  Drafting is one transaction and needs no slot.     *)
(***************************************************************************)
EXTENDS LeavePolicies, PortalIdentities

CONSTANT Admins

ASSUME AdministrationAssumption == Publishers = Admins /\ Mappers = Admins

vars == << policyVars, identityVars >>

Init == PolicyInit /\ IdentityInit

Next ==
  \/ \E p \in Policies, d \in Drafts : CreateDraft(p, d) /\ UNCHANGED identityVars
  \/ \E a \in Admins :
       /\ mapRequest[a] = NoMap
       /\ PublishStep(a)
       /\ UNCHANGED identityVars
  \/ \E a \in Admins :
       /\ publishing[a] = NoPublish
       /\ MapStep(a)
       /\ UNCHANGED policyVars
  \/ EmployeesFollow /\ UNCHANGED policyVars

Spec == Init /\ [][Next]_vars

TypeOK == PolicyTypeOK /\ IdentityTypeOK
=============================================================================
