------------------------- MODULE AdministrationProofs -------------------------
(***************************************************************************)
(* Theorems about Administration, for any sets of policies, drafts,        *)
(* accounts, employees and administrators.                                 *)
(*                                                                         *)
(* The inductive invariant adds to the types what a publish request knows: *)
(* its profile is complete, and what it has seen was published and does    *)
(* not overlap (PublishersKnow), and that published profiles saw only      *)
(* published ones (SightsPublished).  What calculate answers follows from  *)
(* the types and from what countLeaveDays computes (CountLeaveDaysIs).     *)
(***************************************************************************)
EXTENDS Administration, FiniteSetTheorems, WellFoundedInduction, TLAPS

(* What a step does to each part, whoever takes it.                          *)
PolicyNext ==
  \/ \E p \in Policies, d \in Drafts : CreateDraft(p, d)
  \/ \E a \in Publishers : PublishStep(a)
IdentityNext == EmployeesFollow \/ \E a \in Mappers : MapStep(a)

Complete(p) == policy[p].legalBasis /\ DOMAIN policy[p].rules # {}

PublishersKnow ==
  \A a \in Publishers :
    LET r == publishing[a]
    IN  r # NoPublish =>
          /\ Complete(r.id)
          /\ r.seen \subseteq PublishedNow
          /\ \A o \in r.seen \ {r.id} : ~Overlaps(r.id, o)

SightsPublished == \A p \in Policies : published[p] \subseteq PublishedNow

PolicyInv == PolicyTypeOK /\ PublishersKnow /\ SightsPublished /\ OverlapOnlyByRace

MappersKnow ==
  \A a \in Mappers :
    mapRequest[a] # NoMap => mapRequest[a].seen \in { NoOne, mapRequest[a].employee }

IdentityInv == IdentityTypeOK /\ MappersKnow

Inv == PolicyInv /\ IdentityInv

(***************************************************************************)
(* Policies.                                                               *)
(***************************************************************************)
LEMMA PolicyInitInv == PolicyInit => PolicyInv
  BY PoliciesAssumption, RulesAssumption
  DEF PolicyInit, PolicyInv, PolicyTypeOK, PublishersKnow, SightsPublished, OverlapOnlyByRace,
      PublishedNow, IsPublished, Exists

(* A new row is a draft: nothing that is published or under way changes.     *)
LEMMA CreateDraftInv ==
  ASSUME PolicyInv, NEW p \in Policies, NEW d \in Drafts, CreateDraft(p, d)
  PROVE  PolicyInv'
<1> USE DEF PolicyInv
<1>1. /\ d \in PolicyProfile /\ d.status = "DRAFT" /\ d # NoPolicy
      /\ policy' = [ policy EXCEPT ![p] = d ]
      /\ policy[p] = NoPolicy
      /\ UNCHANGED << publishing, published >>
  BY PoliciesAssumption, RulesAssumption DEF CreateDraft, Exists
<1>2. PublishedNow' = PublishedNow
  BY <1>1 DEF PublishedNow, IsPublished, Exists, PolicyTypeOK
<1>3. \A o \in PublishedNow : policy'[o] = policy[o]
  BY <1>1 DEF PublishedNow, IsPublished, Exists, PolicyTypeOK
<1>4. \A a \in Publishers : publishing[a] # NoPublish =>
        publishing[a].id \in Policies /\ policy'[publishing[a].id] = policy[publishing[a].id]
  BY <1>1 DEF PolicyTypeOK, PublishRequest, Exists
<1>5. PolicyTypeOK'
  <2>1. policy' \in [ Policies -> PolicyProfile \cup {NoPolicy} ]
    BY <1>1 DEF PolicyTypeOK
  <2>2. (\A a \in Publishers : publishing[a] # NoPublish => Exists(policy, publishing[a].id))'
    BY <1>1, <1>4 DEF PolicyTypeOK, Exists
  <2>3. (\A o \in PublishedNow : policy[o].legalBasis /\ DOMAIN policy[o].rules # {})'
    BY <1>2, <1>3 DEF PolicyTypeOK
  <2> QED BY <1>1, <2>1, <2>2, <2>3 DEF PolicyTypeOK
<1>6. PublishersKnow'
  BY <1>1, <1>2, <1>3, <1>4 DEF PublishersKnow, Complete, Overlaps
<1>7. SightsPublished'
  BY <1>1, <1>2 DEF SightsPublished
<1>8. OverlapOnlyByRace'
  BY <1>1, <1>2, <1>3 DEF OverlapOnlyByRace, Overlaps
<1> QED BY <1>5, <1>6, <1>7, <1>8

(* The steps before the update leave the rows alone.                         *)
LEMMA ReadingInv ==
  ASSUME PolicyInv, NEW a \in Publishers,
         (\E p \in Policies : FindDraft(a, p)) \/ CheckOverlap(a) \/ AbandonPublish(a)
  PROVE  PolicyInv'
<1> USE DEF PolicyInv
<1>1. UNCHANGED << policy, published >>
  BY DEF FindDraft, CheckOverlap, AbandonPublish
<1>2. PublishedNow' = PublishedNow
  BY <1>1 DEF PublishedNow, IsPublished, Exists
<1>3. PICK r \in PublishRequest \cup {NoPublish} :
        /\ publishing' = [ publishing EXCEPT ![a] = r ]
        /\ r # NoPublish =>
             /\ Exists(policy, r.id) /\ Complete(r.id)
             /\ r.seen \subseteq PublishedNow
             /\ \A o \in r.seen \ {r.id} : ~Overlaps(r.id, o)
  <2>1. CASE \E p \in Policies : FindDraft(a, p)
    <3>1. PICK p \in Policies : FindDraft(a, p)
      BY <2>1
    <3> DEFINE r == [ id |-> p, step |-> "found", seen |-> {} ]
    <3>2. r \in PublishRequest /\ r.id = p /\ r.seen = {}
      BY DEF PublishRequest
    <3>3. publishing' = [ publishing EXCEPT ![a] = r ] /\ Exists(policy, p) /\ Complete(p)
      BY <3>1 DEF FindDraft, Complete
    <3> HIDE DEF r
    <3> QED BY <3>2, <3>3
  <2>2. CASE CheckOverlap(a)
    <3> DEFINE r == [ publishing[a] EXCEPT !.step = "checked", !.seen = PublishedNow ]
    <3>1. publishing[a] \in PublishRequest /\ publishing[a] # NoPublish
      BY <2>2 DEF CheckOverlap, PolicyTypeOK
    <3>2. r \in PublishRequest /\ r.id = publishing[a].id /\ r.seen = PublishedNow
      BY <3>1 DEF PublishRequest, PublishedNow
    <3>3. publishing' = [ publishing EXCEPT ![a] = r ]
      BY <2>2 DEF CheckOverlap, PolicyTypeOK
    <3>4. Exists(policy, publishing[a].id) /\ Complete(publishing[a].id)
      BY <3>1 DEF PolicyTypeOK, PublishersKnow
    <3>5. \A o \in PublishedNow \ {publishing[a].id} : ~Overlaps(publishing[a].id, o)
      BY <2>2 DEF CheckOverlap
    <3> HIDE DEF r
    <3> QED BY <3>2, <3>3, <3>4, <3>5
  <2>3. CASE AbandonPublish(a)
    BY <2>3 DEF AbandonPublish
  <2> QED BY <2>1, <2>2, <2>3
<1>4. PolicyTypeOK'
  BY <1>1, <1>2, <1>3 DEF PolicyTypeOK, Exists
<1>5. PublishersKnow'
  <2> SUFFICES ASSUME NEW b \in Publishers, publishing'[b] # NoPublish
               PROVE  /\ Complete(publishing'[b].id)
                      /\ publishing'[b].seen \subseteq PublishedNow
                      /\ \A o \in publishing'[b].seen \ {publishing'[b].id} :
                           ~Overlaps(publishing'[b].id, o)
    BY <1>1, <1>2 DEF PublishersKnow, Complete, Overlaps
  <2>1. CASE b = a
    BY <1>3, <2>1 DEF PolicyTypeOK
  <2>2. CASE b # a
    BY <1>3, <2>2 DEF PolicyTypeOK, PublishersKnow
  <2> QED BY <2>1, <2>2
<1>6. SightsPublished' /\ OverlapOnlyByRace'
  BY <1>1, <1>2 DEF SightsPublished, OverlapOnlyByRace, Overlaps
<1> QED BY <1>4, <1>5, <1>6

(* What the update by id does, whatever the row has become.                  *)
PublishEffect(a, p, seen) ==
  /\ publishing[a] \in PublishRequest /\ publishing[a] # NoPublish
  /\ p = publishing[a].id /\ seen = publishing[a].seen
  /\ policy[p] \in PolicyProfile
  /\ policy[p].legalBasis /\ DOMAIN policy[p].rules # {}
  /\ policy' = [ policy EXCEPT ![p] = [ policy[p] EXCEPT !.status = "PUBLISHED" ] ]
  /\ published' = [ published EXCEPT ![p] = seen ]
  /\ publishing' = [ publishing EXCEPT ![a] = NoPublish ]
  /\ PublishedNow' = PublishedNow \cup {p}
  /\ seen \subseteq PublishedNow
  /\ \A o \in seen \ {p} : ~Overlaps(p, o)

LEMMA CommitPublishEffect ==
  ASSUME PolicyInv, NEW a \in Publishers, CommitPublish(a)
  PROVE  \E p \in Policies, seen \in SUBSET Policies : PublishEffect(a, p, seen)
<1> USE DEF PolicyInv
<1>1. publishing[a] \in PublishRequest /\ publishing[a] # NoPublish
  BY DEF CommitPublish, PolicyTypeOK
<1>2. PICK p \in Policies, seen \in SUBSET Policies :
        p = publishing[a].id /\ seen = publishing[a].seen
  BY <1>1 DEF PublishRequest
<1>3. policy[p] \in PolicyProfile /\ policy[p] # NoPolicy
  BY <1>1, <1>2 DEF PolicyTypeOK, Exists
<1>4. /\ policy' = [ policy EXCEPT ![p] = [ policy[p] EXCEPT !.status = "PUBLISHED" ] ]
      /\ published' = [ published EXCEPT ![p] = seen ]
      /\ publishing' = [ publishing EXCEPT ![a] = NoPublish ]
  BY <1>2 DEF CommitPublish, PolicyTypeOK
<1>5. Complete(p) /\ seen \subseteq PublishedNow /\ \A o \in seen \ {p} : ~Overlaps(p, o)
  BY <1>1, <1>2 DEF PublishersKnow
<1>6. /\ policy'[p].status = "PUBLISHED" /\ policy'[p] # NoPolicy
      /\ \A o \in Policies \ {p} : policy'[o] = policy[o]
  BY <1>3, <1>4, RulesAssumption DEF PolicyTypeOK, PolicyProfile
<1>7. PublishedNow' = PublishedNow \cup {p}
  BY <1>6 DEF PublishedNow, IsPublished, Exists
<1> QED BY <1>1, <1>2, <1>3, <1>4, <1>5, <1>7 DEF Complete, PublishEffect

LEMMA CommitPublishInv ==
  ASSUME PolicyInv, NEW a \in Publishers, CommitPublish(a)
  PROVE  PolicyInv'
<1> USE DEF PolicyInv
<1>0. PICK p \in Policies, seen \in SUBSET Policies : PublishEffect(a, p, seen)
  BY CommitPublishEffect
<1>1. /\ publishing[a] \in PublishRequest /\ publishing[a] # NoPublish
      /\ p = publishing[a].id /\ seen = publishing[a].seen
      /\ policy[p] \in PolicyProfile
      /\ policy[p].legalBasis /\ DOMAIN policy[p].rules # {}
      /\ policy' = [ policy EXCEPT ![p] = [ policy[p] EXCEPT !.status = "PUBLISHED" ] ]
      /\ published' = [ published EXCEPT ![p] = seen ]
      /\ publishing' = [ publishing EXCEPT ![a] = NoPublish ]
      /\ PublishedNow' = PublishedNow \cup {p}
      /\ seen \subseteq PublishedNow
      /\ \A o \in seen \ {p} : ~Overlaps(p, o)
  BY <1>0 DEF PublishEffect
<1>2. [ policy[p] EXCEPT !.status = "PUBLISHED" ] \in PolicyProfile
  BY <1>1 DEF PolicyProfile
<1>3. \A o \in Policies :
        Exists(policy, o) =>
          /\ policy'[o].scope = policy[o].scope /\ policy'[o].from = policy[o].from
          /\ policy'[o].to = policy[o].to /\ policy'[o].legalBasis = policy[o].legalBasis
          /\ policy'[o].rules = policy[o].rules /\ policy'[o] # NoPolicy
  BY <1>1, <1>2, RulesAssumption DEF PolicyTypeOK, PolicyProfile, Exists
<1>4. \A o, q \in Policies : Exists(policy, o) /\ Exists(policy, q) =>
        (Overlaps(o, q)' <=> Overlaps(o, q))
  BY <1>3 DEF Overlaps
<1>5. \A o \in PublishedNow : Exists(policy, o)
  BY DEF PublishedNow, IsPublished
<1>6. Exists(policy, p)
  BY <1>1, RulesAssumption DEF Exists
<1>7. PolicyTypeOK'
  <2>1. policy' \in [ Policies -> PolicyProfile \cup {NoPolicy} ]
    BY <1>1, <1>2 DEF PolicyTypeOK
  <2>2. /\ publishing' \in [ Publishers -> PublishRequest \cup {NoPublish} ]
        /\ published' \in [ Policies -> SUBSET Policies ]
    BY <1>1 DEF PolicyTypeOK
  <2>3. (\A b \in Publishers : publishing[b] # NoPublish => Exists(policy, publishing[b].id))'
    BY <1>1, <1>3 DEF PolicyTypeOK, PublishRequest, Exists
  <2>4. (\A o \in PublishedNow : policy[o].legalBasis /\ DOMAIN policy[o].rules # {})'
    BY <1>1, <1>3, <1>5, <1>6 DEF PolicyTypeOK, PublishedNow
  <2> QED BY <2>1, <2>2, <2>3, <2>4 DEF PolicyTypeOK
<1>8. PublishersKnow'
  <2> SUFFICES ASSUME NEW b \in Publishers, publishing'[b] # NoPublish
               PROVE  ( /\ Complete(publishing[b].id)
                        /\ publishing[b].seen \subseteq PublishedNow
                        /\ \A o \in publishing[b].seen \ {publishing[b].id} :
                             ~Overlaps(publishing[b].id, o) )'
    BY DEF PublishersKnow
  <2>1. b # a /\ publishing'[b] = publishing[b]
    BY <1>1 DEF PolicyTypeOK
  <2>2. /\ publishing[b].id \in Policies /\ Exists(policy, publishing[b].id)
        /\ Complete(publishing[b].id)
        /\ publishing[b].seen \subseteq PublishedNow
        /\ \A o \in publishing[b].seen \ {publishing[b].id} : ~Overlaps(publishing[b].id, o)
    BY <2>1 DEF PublishersKnow, PolicyTypeOK, PublishRequest
  <2>3. PublishedNow \subseteq Policies
    BY DEF PublishedNow
  <2> QED BY <1>1, <1>3, <1>4, <1>5, <2>1, <2>2, <2>3 DEF Complete
<1>9. SightsPublished'
  BY <1>1 DEF SightsPublished, PolicyTypeOK
<1>10. OverlapOnlyByRace'
  <2> SUFFICES ASSUME NEW o \in PublishedNow \cup {p}, NEW q \in PublishedNow \cup {p},
                      o # q, Overlaps(o, q)'
               PROVE  q \notin published'[o]
    BY <1>1, <1>4 DEF OverlapOnlyByRace, Overlaps
  <2>1. o \in Policies /\ q \in Policies /\ Overlaps(o, q)
    BY <1>4, <1>5, <1>6 DEF PublishedNow
  <2>2. CASE o = p
    BY <1>1, <2>1, <2>2 DEF PolicyTypeOK
  <2>3. CASE o # p /\ q # p
    BY <1>1, <2>1, <2>3 DEF OverlapOnlyByRace, PolicyTypeOK
  <2>4. CASE o # p /\ q = p /\ p \in PublishedNow
    BY <1>1, <2>1, <2>4 DEF OverlapOnlyByRace, PolicyTypeOK
  <2>5. CASE o # p /\ q = p /\ p \notin PublishedNow
    BY <1>1, <2>1, <2>5 DEF SightsPublished, PolicyTypeOK
  <2> QED BY <2>2, <2>3, <2>4, <2>5
<1> QED BY <1>7, <1>8, <1>9, <1>10

(***************************************************************************)
(* Which policy decides: it depends on the published rows only, and a      *)
(* newcomer changes it only by being one of the latest.                    *)
(***************************************************************************)
SamePlace(before, after, o) ==
  /\ before[o].scope = after[o].scope
  /\ before[o].from = after[o].from /\ before[o].to = after[o].to

LEMMA DecidingSame ==
  ASSUME NEW before, NEW after, NEW q,
         \A o \in Policies :
           /\ IsPublished(before, o) <=> IsPublished(after, o)
           /\ IsPublished(before, o) => SamePlace(before, after, o)
  PROVE  Deciding(before, q) = Deciding(after, q)
<1>1. \A scope : Covering(before, scope, q) = Covering(after, scope, q)
  BY DEF Covering, SamePlace
<1>2. \A found : found \subseteq { o \in Policies : IsPublished(before, o) } =>
        Latest(before, found) = Latest(after, found)
  BY DEF Latest, SamePlace
<1>3. \A scope : Covering(before, scope, q) \subseteq { o \in Policies : IsPublished(before, o) }
  BY DEF Covering
<1>4. CASE Covering(before, q.scope, q) # {}
  BY <1>1, <1>2, <1>3, <1>4 DEF Deciding
<1>5. CASE Covering(before, q.scope, q) = {}
  BY <1>1, <1>2, <1>3, <1>5 DEF Deciding
<1> QED BY <1>4, <1>5

LEMMA LatestGrows ==
  ASSUME NEW rows, NEW found, NEW p, \A o \in found \cup {p} : rows[o].from \in Int,
         p \notin Latest(rows, found \cup {p})
  PROVE  Latest(rows, found \cup {p}) = Latest(rows, found)
<1>1. PICK x \in found : rows[x].from > rows[p].from
  BY DEF Latest
<1>2. \A y \in Latest(rows, found) : rows[y].from > rows[p].from
  BY <1>1 DEF Latest
<1> QED BY <1>2 DEF Latest

(* The rows with a newcomer, seen before and after it is published.          *)
LEMMA DecidingMoves ==
  ASSUME NEW before, NEW after, NEW p \in Policies, NEW q \in Question,
         \A o \in Policies : IsPublished(after, o) <=> IsPublished(before, o) \/ o = p,
         \A o \in Policies : IsPublished(after, o) =>
           SamePlace(before, after, o) /\ before[o].from \in Int,
         Deciding(before, q) # Deciding(after, q),
         Deciding(before, q) # {}
  PROVE  /\ p \in Deciding(after, q)
         /\ after[p].from <= q.first /\ q.last <= after[p].to
         /\ \/ \A o \in Deciding(before, q), n \in Deciding(after, q) :
                 before[o].scope = ALL /\ after[n].scope = q.scope
            \/ \A o \in Deciding(before, q) :
                 /\ IsPublished(before, o)
                 /\ before[o].scope = after[p].scope
                 /\ before[o].from <= q.first /\ q.last <= before[o].to
<1>1. \A found : found \subseteq { o \in Policies : IsPublished(after, o) } =>
        Latest(before, found) = Latest(after, found)
  BY DEF Latest, SamePlace
<1>2. \A scope : Covering(after, scope, q) \subseteq { o \in Policies : IsPublished(after, o) }
  BY DEF Covering
<1>3. \A scope : Covering(before, scope, q) \subseteq Covering(after, scope, q)
  BY DEF Covering, SamePlace
<1>4. \A scope : \/ Covering(after, scope, q) = Covering(before, scope, q)
                 \/ /\ Covering(after, scope, q) = Covering(before, scope, q) \cup {p}
                    /\ after[p].scope = scope
                    /\ after[p].from <= q.first /\ q.last <= after[p].to
  BY DEF Covering, SamePlace
<1>5. \A scope : \A o \in Covering(before, scope, q) :
        /\ IsPublished(before, o) /\ before[o].scope = scope
        /\ before[o].from <= q.first /\ q.last <= before[o].to
  BY DEF Covering
<1>6. \A scope : Latest(before, Covering(before, scope, q)) \subseteq Covering(before, scope, q)
  BY DEF Latest
<1>7. \A scope : p \notin Latest(after, Covering(after, scope, q)) =>
        Latest(after, Covering(after, scope, q)) = Latest(before, Covering(before, scope, q))
  <2> SUFFICES ASSUME NEW scope, p \notin Latest(after, Covering(after, scope, q))
               PROVE  Latest(after, Covering(after, scope, q)) = Latest(before, Covering(before, scope, q))
    OBVIOUS
  <2>1. Latest(after, Covering(after, scope, q)) = Latest(before, Covering(after, scope, q))
    BY <1>1, <1>2
  <2>2. CASE Covering(after, scope, q) = Covering(before, scope, q)
    BY <2>1, <2>2
  <2>3. CASE Covering(after, scope, q) = Covering(before, scope, q) \cup {p}
    <3>1. \A o \in Covering(before, scope, q) \cup {p} : before[o].from \in Int
      BY <1>2, <2>3
    <3> QED BY <2>1, <2>3, <3>1, LatestGrows
  <2> QED BY <1>4, <2>2, <2>3
<1>8. CASE Covering(before, q.scope, q) # {}
  <2>1. /\ Deciding(before, q) = Latest(before, Covering(before, q.scope, q))
        /\ Deciding(after, q) = Latest(after, Covering(after, q.scope, q))
    BY <1>3, <1>8 DEF Deciding
  <2>2. p \in Deciding(after, q)
    BY <1>7, <2>1
  <2>3. after[p].scope = q.scope /\ after[p].from <= q.first /\ q.last <= after[p].to
    BY <2>1, <2>2 DEF Latest, Covering
  <2> QED BY <1>5, <1>6, <2>1, <2>2, <2>3
<1>9. CASE Covering(before, q.scope, q) = {} /\ Covering(after, q.scope, q) = {}
  <2>1. /\ Deciding(before, q) = Latest(before, Covering(before, ALL, q))
        /\ Deciding(after, q) = Latest(after, Covering(after, ALL, q))
    BY <1>9 DEF Deciding
  <2>2. p \in Deciding(after, q)
    BY <1>7, <2>1
  <2>3. after[p].scope = ALL /\ after[p].from <= q.first /\ q.last <= after[p].to
    BY <2>1, <2>2 DEF Latest, Covering
  <2> QED BY <1>5, <1>6, <2>1, <2>2, <2>3
<1>10. CASE Covering(before, q.scope, q) = {} /\ Covering(after, q.scope, q) # {}
  <2>1. /\ Covering(after, q.scope, q) = {p}
        /\ after[p].scope = q.scope
        /\ after[p].from <= q.first /\ q.last <= after[p].to
    BY <1>4, <1>10
  <2>2. /\ Deciding(before, q) = Latest(before, Covering(before, ALL, q))
        /\ Deciding(after, q) = Latest(after, {p})
    BY <1>10, <2>1 DEF Deciding
  <2>3. Deciding(after, q) = {p}
    BY <1>2, <2>1, <2>2 DEF Latest, SamePlace
  <2>4. \A o \in Deciding(before, q) : before[o].scope = ALL
    BY <1>5, <1>6, <2>2
  <2> QED BY <2>1, <2>3, <2>4
<1> QED BY <1>8, <1>9, <1>10

LEMMA CommitTakesOver ==
  ASSUME PolicyInv, NEW a \in Publishers, CommitPublish(a)
  PROVE  TakesOver
<1> USE DEF PolicyInv
<1>0. PICK p \in Policies, seen \in SUBSET Policies : PublishEffect(a, p, seen)
  BY CommitPublishEffect
<1>1. /\ policy[p] \in PolicyProfile
      /\ policy' = [ policy EXCEPT ![p] = [ policy[p] EXCEPT !.status = "PUBLISHED" ] ]
      /\ published' = [ published EXCEPT ![p] = seen ]
      /\ PublishedNow' = PublishedNow \cup {p}
      /\ \A o \in seen \ {p} : ~Overlaps(p, o)
  BY <1>0 DEF PublishEffect
<1>2. \A o \in Policies : Exists(policy, o) =>
        /\ SamePlace(policy, policy', o) /\ policy[o].from \in Int /\ policy[o].to \in Int
  BY <1>1, RulesAssumption DEF PolicyTypeOK, PolicyProfile, Exists, SamePlace, Dates, NoEnd
<1>3. Exists(policy, p)
  BY <1>1, RulesAssumption DEF Exists
<1>4. \A o \in Policies : IsPublished(policy', o) <=> IsPublished(policy, o) \/ o = p
  BY <1>1 DEF PublishedNow
<1>5. \A o \in Policies : IsPublished(policy', o) =>
        SamePlace(policy, policy', o) /\ policy[o].from \in Int
  BY <1>2, <1>3, <1>4 DEF IsPublished
<1> SUFFICES ASSUME NEW q \in Question, NEW old, NEW new,
                    old = Deciding(policy, q), new = Deciding(policy', q),
                    new # old, old # {}
             PROVE  \/ \A o \in old, n \in new : policy[o].scope = ALL /\ policy'[n].scope = q.scope
                    \/ \E o \in old, n \in new : o # n /\ o \notin published'[n] /\ n \notin published'[o]
  BY DEF TakesOver
<1>6. ~IsPublished(policy, p)
  <2> SUFFICES ASSUME IsPublished(policy, p) PROVE FALSE
    OBVIOUS
  <2>1. \A o \in Policies :
          /\ IsPublished(policy, o) <=> IsPublished(policy', o)
          /\ IsPublished(policy, o) => SamePlace(policy, policy', o)
    BY <1>4, <1>5
  <2> QED BY <2>1, DecidingSame
<1>7. /\ p \in new
      /\ policy'[p].from <= q.first /\ q.last <= policy'[p].to
      /\ \/ \A o \in old, n \in new : policy[o].scope = ALL /\ policy'[n].scope = q.scope
         \/ \A o \in old :
              /\ IsPublished(policy, o)
              /\ policy[o].scope = policy'[p].scope
              /\ policy[o].from <= q.first /\ q.last <= policy[o].to
  BY <1>4, <1>5, DecidingMoves
<1>8. ASSUME \A o \in old :
               /\ IsPublished(policy, o)
               /\ policy[o].scope = policy'[p].scope
               /\ policy[o].from <= q.first /\ q.last <= policy[o].to
      PROVE  \E o \in old, n \in new : o # n /\ o \notin published'[n] /\ n \notin published'[o]
  <2>1. PICK o \in old : TRUE
    OBVIOUS
  <2>2. o \in Policies
    BY DEF Deciding, Latest, Covering
  <2>3. o # p
    BY <1>6, <1>8
  <2>4. q.first \in Int /\ q.last \in Int /\ q.first <= q.last
    BY DEF Question, Dates
  <2>5. SamePlace(policy, policy', p) /\ policy[p].from \in Int /\ policy[p].to \in Int
        /\ policy[o].from \in Int /\ policy[o].to \in Int
    BY <1>2, <1>3, <1>8, <2>2 DEF IsPublished
  <2>6. Overlaps(p, o)
    BY <1>7, <1>8, <2>4, <2>5 DEF Overlaps, SamePlace
  <2>7. o \notin published'[p]
    BY <1>1, <2>3, <2>6 DEF PolicyTypeOK
  <2>8. p \notin published'[o]
    BY <1>1, <1>6, <2>2, <2>3 DEF PolicyTypeOK, SightsPublished, PublishedNow
  <2> QED BY <1>7, <2>3, <2>7, <2>8
<1> QED BY <1>7, <1>8

LEMMA PolicyStays == UNCHANGED policyVars /\ PolicyInv => PolicyInv'
  BY DEF policyVars, PolicyInv, PolicyTypeOK, PublishersKnow, SightsPublished, OverlapOnlyByRace,
         PublishedNow, IsPublished, Exists, Complete, Overlaps

LEMMA PublishStepInv ==
  ASSUME PolicyInv, NEW a \in Publishers, PublishStep(a)
  PROVE  PolicyInv'
  BY ReadingInv, CommitPublishInv DEF PublishStep

(* A draft decides nothing, and a request that only reads changes no row.    *)
LEMMA PolicyNextTakesOver == PolicyInv /\ [PolicyNext]_policyVars => TakesOver
<1> SUFFICES ASSUME PolicyInv, [PolicyNext]_policyVars PROVE TakesOver
  OBVIOUS
<1> USE DEF PolicyInv
<1>1. CASE UNCHANGED policy
  BY <1>1 DEF TakesOver
<1>2. ASSUME NEW p \in Policies, NEW d \in Drafts, CreateDraft(p, d)
      PROVE  TakesOver
  <2>1. d.status = "DRAFT" /\ policy' = [ policy EXCEPT ![p] = d ] /\ ~Exists(policy, p)
    BY <1>2, PoliciesAssumption DEF CreateDraft
  <2>2. \A o \in Policies :
          /\ IsPublished(policy, o) <=> IsPublished(policy', o)
          /\ IsPublished(policy, o) => SamePlace(policy, policy', o)
    BY <2>1 DEF IsPublished, Exists, SamePlace, PolicyTypeOK
  <2>3. \A q \in Question : Deciding(policy, q) = Deciding(policy', q)
    BY <2>2, DecidingSame
  <2> QED BY <2>3 DEF TakesOver
<1>3. ASSUME NEW a \in Publishers, PublishStep(a)
      PROVE  TakesOver
  <2>1. CASE (\E p \in Policies : FindDraft(a, p)) \/ CheckOverlap(a) \/ AbandonPublish(a)
    BY <1>1, <2>1 DEF FindDraft, CheckOverlap, AbandonPublish
  <2>2. CASE CommitPublish(a)
    BY <2>2, CommitTakesOver
  <2> QED BY <1>3, <2>1, <2>2 DEF PublishStep
<1>4. CASE UNCHANGED policyVars
  BY <1>1, <1>4 DEF policyVars
<1> QED BY <1>2, <1>3, <1>4 DEF PolicyNext

(***************************************************************************)
(* Identities.                                                             *)
(***************************************************************************)
LEMMA IdentityInitInv == IdentityInit => IdentityInv
  BY DEF IdentityInit, IdentityInv, IdentityTypeOK, MappersKnow

LEMMA IdentityStays == UNCHANGED identityVars /\ IdentityInv => IdentityInv'
  BY DEF identityVars, IdentityInv, IdentityTypeOK, MappersKnow

LEMMA BeginMapInv ==
  ASSUME IdentityInv, NEW a \in Mappers, NEW s \in Subjects, NEW e \in Employees, BeginMap(a, s, e)
  PROVE  IdentityInv'
<1> USE DEF IdentityInv
<1>1. PICK r \in MapRequest :
        /\ r.employee = e /\ r.seen = mapping[s]
        /\ mapRequest' = [ mapRequest EXCEPT ![a] = r ]
  BY DEF BeginMap, MapRequest, IdentityTypeOK
<1>2. mapping[s] \in { NoOne, e } /\ UNCHANGED << active, mapping >>
  BY DEF BeginMap
<1> QED BY <1>1, <1>2 DEF IdentityTypeOK, MappersKnow

LEMMA IdentityNextInv == IdentityInv /\ [IdentityNext]_identityVars => IdentityInv'
<1> SUFFICES ASSUME IdentityInv, [IdentityNext]_identityVars PROVE IdentityInv'
  OBVIOUS
<1> USE DEF IdentityInv
<1>1. CASE EmployeesFollow
  BY <1>1 DEF EmployeesFollow, IdentityTypeOK, MappersKnow
<1>2. ASSUME NEW a \in Mappers, CommitMap(a)
      PROVE  IdentityInv'
  <2>1. mapRequest[a] \in MapRequest
    BY <1>2 DEF CommitMap, IdentityTypeOK
  <2>2. mapRequest[a].subject \in Subjects /\ mapRequest[a].employee \in Employees
    BY <2>1 DEF MapRequest
  <2> QED BY <1>2, <2>2 DEF CommitMap, IdentityTypeOK, MappersKnow
<1>3. ASSUME NEW a \in Mappers, AbandonMap(a)
      PROVE  IdentityInv'
  BY <1>3 DEF AbandonMap, IdentityTypeOK, MappersKnow
<1>4. CASE UNCHANGED identityVars
  BY <1>4, IdentityStays
<1> QED BY <1>1, <1>2, <1>3, <1>4, BeginMapInv DEF IdentityNext, MapStep

(* A request that had seen the mapping it overwrites found it free, or his.  *)
LEMMA MapsUnseen == IdentityInv /\ [IdentityNext]_identityVars => MovesUnseen
<1> SUFFICES ASSUME IdentityInv, [IdentityNext]_identityVars,
                    NEW s \in Subjects, mapping[s] # NoOne, mapping'[s] # mapping[s]
             PROVE  \E a \in Mappers :
                      /\ mapRequest[a] # NoMap /\ mapRequest'[a] = NoMap
                      /\ mapRequest[a].subject = s /\ mapRequest[a].employee = mapping'[s]
                      /\ mapRequest[a].seen # mapping[s]
  BY DEF MovesUnseen
<1> USE DEF IdentityInv
<1>1. PICK a \in Mappers : CommitMap(a)
  BY DEF IdentityNext, MapStep, EmployeesFollow, BeginMap, AbandonMap, identityVars
<1>2. mapRequest[a] # NoMap /\ mapRequest'[a] = NoMap
  BY <1>1 DEF CommitMap, IdentityTypeOK
<1>3. mapRequest[a].subject = s /\ mapRequest[a].employee = mapping'[s]
  BY <1>1 DEF CommitMap, IdentityTypeOK
<1>4. mapRequest[a].seen \in { NoOne, mapRequest[a].employee }
  BY <1>2 DEF MappersKnow
<1> QED BY <1>2, <1>3, <1>4

(***************************************************************************)
(* Calculations.  The library's induction takes an operator; so countLeave- *)
(* Days is shown to count by taking the longest rest of the range on which *)
(* a function with its equation would differ from the count.               *)
(***************************************************************************)
Rest(cursor, last, mode) == { d \in cursor .. last : Counts(d, mode) }

Rests(first, last, mode) ==
  [ cursor \in first .. last + 1 |-> Cardinality(Rest(cursor, last, mode)) ]

Step(f, cursor, last, mode) ==
  IF cursor > last THEN 0 ELSE f[cursor + 1] + (IF Counts(cursor, mode) THEN 1 ELSE 0)

LEMMA RestIsFinite ==
  ASSUME NEW cursor \in Int, NEW last \in Int, NEW mode
  PROVE  /\ IsFiniteSet(Rest(cursor, last, mode))
         /\ Cardinality(Rest(cursor, last, mode)) \in Nat
<1>1. IsFiniteSet(cursor .. last)
  BY FS_Interval
<1>2. Rest(cursor, last, mode) \in SUBSET (cursor .. last)
  BY DEF Rest
<1>3. IsFiniteSet(Rest(cursor, last, mode))
  BY <1>1, <1>2, FS_Subset
<1> QED BY <1>3, FS_CardinalityType

LEMMA RestSteps ==
  ASSUME NEW cursor \in Int, NEW last \in Int, NEW mode
  PROVE  Cardinality(Rest(cursor, last, mode)) =
           IF cursor > last THEN 0
           ELSE Cardinality(Rest(cursor + 1, last, mode)) + (IF Counts(cursor, mode) THEN 1 ELSE 0)
<1> DEFINE S == Rest(cursor + 1, last, mode)
<1>1. CASE cursor > last
  <2>1. Rest(cursor, last, mode) = {}
    BY <1>1 DEF Rest
  <2> QED BY <1>1, <2>1, FS_EmptySet
<1>2. CASE cursor <= last /\ Counts(cursor, mode)
  <2>1. Rest(cursor, last, mode) = S \cup {cursor} /\ cursor \notin S
    BY <1>2 DEF Rest
  <2>2. IsFiniteSet(S)
    BY RestIsFinite
  <2>3. Cardinality(S \cup {cursor}) = Cardinality(S) + 1
    <3> HIDE DEF S
    <3> QED BY <2>1, <2>2, FS_AddElement
  <2> QED BY <1>2, <2>1, <2>3
<1>3. CASE cursor <= last /\ ~Counts(cursor, mode)
  <2>1. Rest(cursor, last, mode) = S
    BY <1>3 DEF Rest
  <2>2. Cardinality(S) \in Nat
    BY RestIsFinite
  <2> QED BY <1>3, <2>1, <2>2
<1> QED BY <1>1, <1>2, <1>3

LEMMA RestsIsOnly ==
  ASSUME NEW first \in Int, NEW last \in Int, first <= last, NEW mode,
         NEW f, f = [ cursor \in first .. last + 1 |-> Step(f, cursor, last, mode) ]
  PROVE  f[first] = Cardinality(Rest(first, last, mode))
<1> DEFINE Span == first .. last + 1
           Wrong == { c \in Span : f[c] # Cardinality(Rest(c, last, mode)) }
           T == { last + 1 - c : c \in Wrong }
<1>1. SUFFICES ASSUME Wrong # {} PROVE FALSE
  <2>1. first \in Span
    OBVIOUS
  <2> QED BY <2>1
<1>2. T \subseteq Nat /\ T # {}
  <2>1. \A c \in Wrong : last + 1 - c \in Nat
    OBVIOUS
  <2> HIDE DEF Wrong
  <2> QED BY <1>1, <2>1
<1>3. PICK t \in T : \A u \in T : ~(<< u, t >> \in OpToRel(<, Nat))
  <2> HIDE DEF T
  <2> QED BY <1>2, NatLessThanWellFounded, WFMin
<1>4. PICK c \in Wrong : t = last + 1 - c
  OBVIOUS
<1>5. f[c] = Step(f, c, last, mode)
  OBVIOUS
<1>6. CASE c > last
  BY <1>4, <1>5, <1>6, RestSteps DEF Step
<1>7. CASE c <= last
  <2>1. c + 1 \in Span
    BY <1>7
  <2>2. c + 1 \notin Wrong
    <3>1. SUFFICES ASSUME c + 1 \in Wrong PROVE FALSE
      OBVIOUS
    <3>2. last + 1 - (c + 1) \in T
      BY <3>1
    <3>3. last + 1 - (c + 1) < t /\ last + 1 - (c + 1) \in Nat /\ t \in Nat
      BY <1>2, <1>4, <3>2
    <3> QED BY <1>3, <3>2, <3>3 DEF OpToRel
  <2>3. f[c + 1] = Cardinality(Rest(c + 1, last, mode))
    BY <2>1, <2>2
  <2> QED BY <1>4, <1>5, <1>7, <2>3, RestSteps DEF Step
<1> QED BY <1>6, <1>7

(* countLeaveDays answers the number of days of the range that count.        *)
LEMMA CountLeaveDaysIs ==
  ASSUME NEW first \in Int, NEW last \in Int, first <= last, NEW mode
  PROVE  CountLeaveDays(first, last, mode) = Cardinality(Rest(first, last, mode))
<1> DEFINE Counted(f) == f = [ cursor \in first .. last + 1 |-> Step(f, cursor, last, mode) ]
           R == Rests(first, last, mode)
<1>1. Counted(R)
  <2>1. ASSUME NEW cursor \in first .. last + 1
        PROVE  Cardinality(Rest(cursor, last, mode)) = Step(R, cursor, last, mode)
    <3>1. CASE cursor > last
      BY <3>1, RestSteps DEF Step
    <3>2. CASE cursor <= last
      <4>1. R[cursor + 1] = Cardinality(Rest(cursor + 1, last, mode))
        BY <3>2 DEF Rests
      <4> QED BY <3>2, <4>1, RestSteps DEF Step
    <3> QED BY <3>1, <3>2
  <2> QED BY <2>1 DEF Rests
<1>2. CountLeaveDays(first, last, mode) = (CHOOSE f : Counted(f))[first]
  BY DEF CountLeaveDays, Step
<1>3. Counted(CHOOSE f : Counted(f))
  <2> HIDE DEF Counted
  <2> QED BY <1>1
<1> QED BY <1>2, <1>3, RestsIsOnly

LEMMA LatestExists ==
  ASSUME NEW rows, NEW found, found # {}, \A o \in found : rows[o].from \in Dates
  PROVE  Latest(rows, found) # {}
<1> DEFINE T == { LastDate - rows[o].from : o \in found }
<1>0. LastDate \in Nat
  BY RulesAssumption
<1>1. \A o \in found : rows[o].from \in Nat /\ LastDate - rows[o].from \in Nat
  BY <1>0 DEF Dates
<1>2. T \subseteq Nat /\ T # {}
  <2>1. T \subseteq Nat
    BY <1>1
  <2>2. PICK o \in found : TRUE
    OBVIOUS
  <2>3. LastDate - rows[o].from \in T
    BY <2>2
  <2> QED BY <2>1, <2>3
<1>3. PICK t \in T : \A u \in T : ~(<< u, t >> \in OpToRel(<, Nat))
  <2> HIDE DEF T
  <2> QED BY <1>2, NatLessThanWellFounded, WFMin
<1>4. PICK p \in found : t = LastDate - rows[p].from
  OBVIOUS
<1>5. ASSUME NEW o \in found PROVE rows[o].from <= rows[p].from
  <2>1. PICK u \in T : u = LastDate - rows[o].from
    OBVIOUS
  <2>2. u \in Nat /\ t \in Nat
    BY <1>2
  <2>3. ~(u < t)
    BY <1>3, <2>2 DEF OpToRel
  <2>4. rows[o].from \in Nat /\ rows[p].from \in Nat
    BY <1>1
  <2> QED BY <1>0, <1>4, <2>1, <2>3, <2>4
<1> QED BY <1>4, <1>5 DEF Latest

(* What decides covers the range, and something does when anything covers it. *)
LEMMA DecidingCovers ==
  ASSUME PolicyTypeOK, NEW q
  PROVE  /\ Deciding(policy, q) \subseteq Covering(policy, q.scope, q) \cup Covering(policy, ALL, q)
         /\ Deciding(policy, q) = {} =>
              Covering(policy, q.scope, q) \cup Covering(policy, ALL, q) = {}
<1>1. \A scope : \A o \in Covering(policy, scope, q) : policy[o].from \in Dates
  BY DEF Covering, IsPublished, Exists, PolicyTypeOK, PolicyProfile
<1>2. \A scope : Covering(policy, scope, q) # {} => Latest(policy, Covering(policy, scope, q)) # {}
  BY <1>1, LatestExists
<1>3. \A found : Latest(policy, found) \subseteq found
  BY DEF Latest
<1>4. CASE Covering(policy, q.scope, q) # {}
  <2>1. Deciding(policy, q) = Latest(policy, Covering(policy, q.scope, q))
    BY <1>4 DEF Deciding
  <2> QED BY <1>2, <1>3, <1>4, <2>1
<1>5. CASE Covering(policy, q.scope, q) = {}
  <2>1. Deciding(policy, q) = Latest(policy, Covering(policy, ALL, q))
    BY <1>5 DEF Deciding
  <2> QED BY <1>2, <1>3, <1>5, <2>1
<1> QED BY <1>4, <1>5

LEMMA RulesGrounded ==
  ASSUME PolicyTypeOK, NEW q \in Question, NEW r \in Rules(policy, q)
  PROVE  /\ r.mode \in Modes
         /\ \/ /\ r.basis = PROVISIONAL /\ ProvisionalAllowed
               /\ Covering(policy, q.scope, q) \cup Covering(policy, ALL, q) = {}
            \/ /\ r.basis \in PublishedNow
               /\ policy[r.basis].from <= q.first /\ q.last <= policy[r.basis].to
<1>1. CASE Deciding(policy, q) # {}
  <2>1. PICK p \in Deciding(policy, q) :
          q.type \in DOMAIN policy[p].rules /\ r = [ basis |-> p, mode |-> policy[p].rules[q.type] ]
    BY <1>1 DEF Rules
  <2>2. /\ p \in Policies /\ IsPublished(policy, p)
        /\ policy[p].from <= q.first /\ q.last <= policy[p].to
    BY DecidingCovers DEF Covering
  <2>3. policy[p] \in PolicyProfile
    BY <2>2 DEF IsPublished, Exists, PolicyTypeOK
  <2>4. PICK types \in SUBSET LeaveTypes : policy[p].rules \in [ types -> Modes ]
    BY <2>3 DEF PolicyProfile
  <2>5. policy[p].rules[q.type] \in Modes
    BY <2>1, <2>4
  <2> QED BY <2>1, <2>2, <2>5 DEF PublishedNow
<1>2. CASE Deciding(policy, q) = {}
  <2>1. /\ ProvisionalAllowed /\ q.type \in DOMAIN COUNTING_RULES
        /\ r = [ basis |-> PROVISIONAL, mode |-> COUNTING_RULES[q.type] ]
    BY <1>2 DEF Rules
  <2>2. r.mode \in Modes
    BY <2>1, RulesAssumption
  <2> QED BY <1>2, <2>1, <2>2, DecidingCovers
<1> QED BY <1>1, <1>2

LEMMA RestIs ==
  ASSUME NEW first \in Int, NEW last \in Int, NEW mode \in Modes
  PROVE  Rest(first, last, mode) =
           IF mode = "CALENDAR_DAYS" THEN first .. last
           ELSE (first .. last) \ (Weekend \cup Holidays)
  BY DEF Rest, Counts

LEMMA CalculationsFollow == PolicyTypeOK => CalculationsExact
<1>1. SUFFICES ASSUME PolicyTypeOK, NEW q \in Question, NEW c \in Calculate(policy, q)
      PROVE  /\ c \in Calculation
             /\ c.days \in 1 .. q.last - q.first + 1
             /\ c.days = Cardinality(IF c.mode = "CALENDAR_DAYS" THEN q.first .. q.last
                                     ELSE (q.first .. q.last) \ (Weekend \cup Holidays))
             /\ IF c.basis = PROVISIONAL
                THEN /\ ProvisionalAllowed
                     /\ Covering(policy, q.scope, q) \cup Covering(policy, ALL, q) = {}
                ELSE /\ policy[c.basis].from <= q.first /\ q.last <= policy[c.basis].to
                     /\ c.basis \in PublishedNow
  BY DEF CalculationsExact
<1>2. PICK r \in Rules(policy, q) :
        c = [ basis |-> r.basis, mode |-> r.mode, days |-> CountLeaveDays(q.first, q.last, r.mode) ]
  BY DEF Calculate
<1>3. c.basis = r.basis /\ c.mode = r.mode /\ c.days = CountLeaveDays(q.first, q.last, r.mode)
  BY <1>2
<1>4. c.days >= 1
  BY DEF Calculate
<1>5. q.first \in Int /\ q.last \in Int /\ q.first <= q.last
  BY RulesAssumption DEF Question, Dates
<1>6. /\ r.mode \in Modes
      /\ \/ /\ r.basis = PROVISIONAL /\ ProvisionalAllowed
            /\ Covering(policy, q.scope, q) \cup Covering(policy, ALL, q) = {}
         \/ /\ r.basis \in PublishedNow
            /\ policy[r.basis].from <= q.first /\ q.last <= policy[r.basis].to
  BY <1>1, RulesGrounded
<1>7. c.days = Cardinality(Rest(q.first, q.last, r.mode)) /\ c.days \in Nat
  BY <1>3, <1>5, CountLeaveDaysIs, RestIsFinite
<1>8. c.days <= q.last - q.first + 1
  <2>1. IsFiniteSet(q.first .. q.last) /\ Cardinality(q.first .. q.last) = q.last - q.first + 1
    BY <1>5, FS_Interval
  <2>2. Rest(q.first, q.last, r.mode) \in SUBSET (q.first .. q.last)
    BY DEF Rest
  <2>3. Cardinality(Rest(q.first, q.last, r.mode)) <= Cardinality(q.first .. q.last)
    BY <2>1, <2>2, FS_Subset
  <2> QED BY <1>5, <1>7, <2>1, <2>3
<1>9. c.days \in 1 .. q.last - q.first + 1
  BY <1>4, <1>5, <1>7, <1>8
<1>10. c.days = Cardinality(IF c.mode = "CALENDAR_DAYS" THEN q.first .. q.last
                            ELSE (q.first .. q.last) \ (Weekend \cup Holidays))
  BY <1>3, <1>5, <1>6, <1>7, RestIs
<1>11. c \in Calculation
  BY <1>2, <1>3, <1>6, <1>7 DEF Calculation, PublishedNow
<1>12. r.basis \in PublishedNow => r.basis # PROVISIONAL
  BY RulesAssumption DEF PublishedNow
<1> QED BY <1>3, <1>6, <1>9, <1>10, <1>11, <1>12

(***************************************************************************)
(* Theorems.                                                               *)
(***************************************************************************)
LEMMA NextSplits == [Next]_vars => [PolicyNext]_policyVars /\ [IdentityNext]_identityVars
  BY AdministrationAssumption DEF Next, vars, PolicyNext, IdentityNext

LEMMA PolicyNextInv == PolicyInv /\ [PolicyNext]_policyVars => PolicyInv'
  BY CreateDraftInv, PublishStepInv, PolicyStays DEF PolicyNext

LEMMA InvCorrect == Spec => []Inv
<1>1. Init => Inv
  BY PolicyInitInv, IdentityInitInv DEF Init, Inv
<1>2. Inv /\ [Next]_vars => Inv'
  BY NextSplits, PolicyNextInv, IdentityNextInv DEF Inv
<1> QED BY <1>1, <1>2, PTL DEF Spec

(* Rows, requests and mappings keep their types, and a published policy is   *)
(* complete.                                                                 *)
THEOREM TypeCorrect == Spec => []TypeOK
<1>1. Inv => TypeOK
  BY DEF Inv, PolicyInv, IdentityInv, TypeOK
<1> QED BY <1>1, InvCorrect, PTL

(* Published policies of one scope overlap only when the requests that       *)
(* published them had looked before either was published.                    *)
THEOREM OverlapOnlyByRaceCorrect == Spec => []OverlapOnlyByRace
<1>1. Inv => OverlapOnlyByRace
  BY DEF Inv, PolicyInv
<1> QED BY <1>1, InvCorrect, PTL

(* The policy that decides a range of dates is replaced only from the        *)
(* provisional table, by a policy of the very scope, or by a race.           *)
THEOREM RulebookStandsCorrect == Spec => RulebookStands
<1>1. Inv /\ [Next]_vars => [TakesOver]_policyVars
  BY NextSplits, PolicyNextTakesOver DEF Inv
<1> QED BY <1>1, InvCorrect, PTL DEF Spec, RulebookStands

(* A mapping moves to another employee only by a request that had not seen   *)
(* the mapping it overwrites.                                                *)
THEOREM MappingMovesCorrect == Spec => MappingMovesOnlyByRace
<1>1. Inv /\ [Next]_vars => [MovesUnseen]_identityVars
  BY NextSplits, MapsUnseen DEF Inv
<1> QED BY <1>1, InvCorrect, PTL DEF Spec, MappingMovesOnlyByRace

(* Every answer of calculate is the number of days of the range that its     *)
(* counting mode counts, at least one, by a published policy that covers the *)
(* whole range, or by the provisional table when no policy does.             *)
THEOREM CalculationsCorrect == Spec => []CalculationsExact
<1>1. Inv => CalculationsExact
  BY CalculationsFollow DEF Inv, PolicyInv
<1> QED BY <1>1, InvCorrect, PTL
=============================================================================
