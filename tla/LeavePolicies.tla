----------------------------- MODULE LeavePolicies -----------------------------
(***************************************************************************)
(* LeavePolicyService: administrators draft rulebook policies and publish  *)
(* them.  publish reads the draft, then looks for a published policy of    *)
(* the same scope whose period overlaps, and then updates the row by id:   *)
(* between these steps other requests run.  Nothing changes a policy that  *)
(* is published, and nothing deletes one.                                  *)
(***************************************************************************)
EXTENDS LeaveRules

CONSTANTS
  Drafts,      \* the profiles that administrators may submit
  Publishers,  \* slots for publish requests in progress
  NoPublish    \* a slot without a request

PublishRequest ==
  [ id : Policies, step : {"found", "checked"}, seen : SUBSET Policies ]

ASSUME PoliciesAssumption ==
  /\ Drafts \subseteq PolicyProfile
  /\ \A d \in Drafts : d.status = "DRAFT"
  /\ NoPublish \notin PublishRequest

VARIABLES
  policy,     \* LeavePolicyProfile rows with their rules
  publishing, \* what each publish request has read (seen: the policies that
              \* were published when it looked for an overlap)
  published   \* history: what the request had seen that published a policy last

policyVars == << policy, publishing, published >>

PolicyInit ==
  /\ policy = [ p \in Policies |-> NoPolicy ]
  /\ publishing = [ a \in Publishers |-> NoPublish ]
  /\ published = [ p \in Policies |-> {} ]

PublishedNow == { p \in Policies : IsPublished(policy, p) }

(* createDraft: valid dates, rules for distinct active leave types; (code,   *)
(* effectiveFrom) is a unique key of the affiliation.                        *)
CreateDraft(p, d) ==
  /\ ~Exists(policy, p)
  /\ d.from <= d.to
  /\ \A o \in Policies : Exists(policy, o) => << policy[o].code, policy[o].from >> # << d.code, d.from >>
  /\ policy' = [ policy EXCEPT ![p] = d ]
  /\ UNCHANGED << publishing, published >>

(* Mutant: the legal basis is not asked for.                                 *)
FindDraftWithoutBasis(a, p) ==
  /\ publishing[a] = NoPublish
  /\ Exists(policy, p) /\ policy[p].status = "DRAFT"
  /\ DOMAIN policy[p].rules # {}
  /\ publishing' = [ publishing EXCEPT ![a] = [ id |-> p, step |-> "found", seen |-> {} ] ]
  /\ UNCHANGED << policy, published >>

(* publish: the profile is read and must be a complete draft.                *)
FindDraft(a, p) ==
  /\ publishing[a] = NoPublish
  /\ Exists(policy, p) /\ policy[p].status = "DRAFT"
  /\ policy[p].legalBasis /\ DOMAIN policy[p].rules # {}
  /\ publishing' = [ publishing EXCEPT ![a] = [ id |-> p, step |-> "found", seen |-> {} ] ]
  /\ UNCHANGED << policy, published >>

Overlaps(p, o) ==
  /\ policy[p].scope = policy[o].scope
  /\ policy[p].from <= policy[o].to /\ policy[o].from <= policy[p].to

(* Mutant: only policies that began earlier are looked at.                   *)
CheckOverlapBackwards(a) ==
  /\ publishing[a] # NoPublish
  /\ publishing[a].step = "found"
  /\ \A o \in PublishedNow \ {publishing[a].id} :
       policy[o].from <= policy[publishing[a].id].from => ~Overlaps(publishing[a].id, o)
  /\ publishing' = [ publishing EXCEPT ![a].step = "checked", ![a].seen = PublishedNow ]
  /\ UNCHANGED << policy, published >>

(* The second read; on an overlap the request is refused (AbandonPublish).   *)
CheckOverlap(a) ==
  /\ publishing[a] # NoPublish
  /\ publishing[a].step = "found"
  /\ \A o \in PublishedNow \ {publishing[a].id} : ~Overlaps(publishing[a].id, o)
  /\ publishing' = [ publishing EXCEPT ![a].step = "checked", ![a].seen = PublishedNow ]
  /\ UNCHANGED << policy, published >>

(* The update by id, whatever the row has become; with its audit event.      *)
CommitPublish(a) ==
  LET p == publishing[a].id
  IN  /\ publishing[a] # NoPublish
      /\ publishing[a].step = "checked"
      /\ policy' = [ policy EXCEPT ![p].status = "PUBLISHED" ]
      /\ published' = [ published EXCEPT ![p] = publishing[a].seen ]
      /\ publishing' = [ publishing EXCEPT ![a] = NoPublish ]

(* Refused, the process dies, or the transaction fails.                      *)
AbandonPublish(a) ==
  /\ publishing[a] # NoPublish
  /\ publishing' = [ publishing EXCEPT ![a] = NoPublish ]
  /\ UNCHANGED << policy, published >>

PublishStep(a) ==
  \/ \E p \in Policies : FindDraft(a, p)
  \/ CheckOverlap(a) \/ CommitPublish(a) \/ AbandonPublish(a)

(***************************************************************************)
(* Properties.                                                             *)
(***************************************************************************)
(* Types; a published policy is complete.                                    *)
PolicyTypeOK ==
  /\ policy \in [ Policies -> PolicyProfile \cup {NoPolicy} ]
  /\ publishing \in [ Publishers -> PublishRequest \cup {NoPublish} ]
  /\ \A a \in Publishers : publishing[a] # NoPublish => Exists(policy, publishing[a].id)
  /\ published \in [ Policies -> SUBSET Policies ]
  /\ \A p \in PublishedNow : policy[p].legalBasis /\ DOMAIN policy[p].rules # {}

(* "The policy effective period overlaps another published policy": two      *)
(* published policies of one scope overlap only when each was published by a *)
(* request whose check came before the other was published.                  *)
OverlapOnlyByRace ==
  \A p, o \in PublishedNow :
    p # o /\ Overlaps(p, o) => o \notin published[p] /\ p \notin published[o]

(* README: a rule that is published is changed by a new version only.  The   *)
(* policy that decides a range of dates decides it for good: a new policy    *)
(* takes over only from the provisional table, from a policy for ALL when it *)
(* is of the very scope, or by a race of two publish requests.               *)
TakesOver ==
  \A q \in Question :
    LET old == Deciding(policy, q)
        new == Deciding(policy', q)
    IN  new # old =>
          \/ old = {}
          \/ \A o \in old, n \in new : policy[o].scope = ALL /\ policy'[n].scope = q.scope
          \/ \E o \in old, n \in new : o # n /\ o \notin published'[n] /\ n \notin published'[o]
RulebookStands == [][TakesOver]_policyVars

(* What calculate answers: a positive number of days, no more than the range *)
(* has, all of them for calendar days, exactly those that are neither        *)
(* weekend nor holiday for working days; and only a policy that covers the   *)
(* whole range, or the provisional table when none does.                     *)
CalculationsExact ==
  \A q \in Question : \A c \in Calculate(policy, q) :
    /\ c \in Calculation
    /\ c.days \in 1 .. q.last - q.first + 1
    /\ c.days = Cardinality(IF c.mode = "CALENDAR_DAYS" THEN q.first .. q.last
                            ELSE (q.first .. q.last) \ (Weekend \cup Holidays))
    /\ IF c.basis = PROVISIONAL
       THEN ProvisionalAllowed /\ Covering(policy, q.scope, q) \cup Covering(policy, ALL, q) = {}
       ELSE /\ policy[c.basis].from <= q.first /\ q.last <= policy[c.basis].to
            /\ c.basis \in PublishedNow
=============================================================================
