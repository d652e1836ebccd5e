SPECIFICATION FairSpec
CONSTANTS
  Sites = {s1}
  s1 = s1
  Requests = {r1, r2}
  r1 = r1
  r2 = r2
  Runners = {w1, w2}
  w1 = w1
  w2 = w2
  Translations = {t1}
  t1 = t1
  Workspace = workspace
  workspace = workspace
  LinkedSteps = 1
  MaxJobs = 2
  MaxFaults = 1
INVARIANTS
  TypeOK
  ClaimsAreExclusive
  CompletedMeansErased
  NothingOutlivesWorkspace
PROPERTY
  JobsSettle
CHECK_DEADLOCK FALSE
