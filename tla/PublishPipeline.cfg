SPECIFICATION FairSpec
CONSTANTS
  Requests = {r1, r2}
  r1 = r1
  r2 = r2
  Pages = {p1, p2}
  p1 = p1
  p2 = p2
  LivePages = {p1}
  FirstSettings = 0
  MaxDeployments = 3
  MaxVersion = 2
  MaxFaults = 1
INVARIANTS
  TypeOK
  HistoryIsLinear
  LiveOwnsItsRevision
  RollbackRestoresTarget
PROPERTIES
  DraftsSurviveRollback
  SettlesUnlessOrphaned
  ImplementsLedger
CHECK_DEADLOCK FALSE
