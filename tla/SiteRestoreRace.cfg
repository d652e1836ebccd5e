SPECIFICATION Spec
CONSTANTS
  Sites = {s1}
  s1 = s1
  Requests = {r1}
  r1 = r1
  Runners = {w1}
  w1 = w1
  Translations = {t1}
  t1 = t1
  Workspace = workspace
  workspace = workspace
  LinkedSteps = 1
  MaxJobs = 1
  MaxFaults = 0
PROPERTY
  ActiveSitesAreSpared
CHECK_DEADLOCK FALSE
