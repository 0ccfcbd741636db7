SPECIFICATION Spec
CONSTANTS
  p1 = p1
  l1 = l1
  l2 = l2
  Forms <- MCForms
  MaxRevisions <- MCMaxRevisions
  Leaves = {l1, l2}
  Persons = {p1}
  Memberships <- MCMemberships
  Requests = {c1, c2}
  NoLeave = NoLeave
  NoTransition = NoTransition
  LastDate = 2
  PeriodFirst = 2
  PeriodLast = 2
  Senders = {c1, c2}
  NoBatch = NoBatch
  NoJob = NoJob
  MaxVersion = 2
  MaxDeliveries = 2
SYMMETRY Symmetry
INVARIANTS
  TypeOK
  HistoryExact
  ConfirmedOverlapOnlyByRace
  VersionsExact
  AcknowledgementsHonest
PROPERTIES
  AcknowledgementLostOnlyByRace
