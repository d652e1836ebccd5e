SPECIFICATION FairSpec
CONSTANTS
  home = home
  a = a
  b = b
  c = c
  Urls = {home, a, b, c}
  Start = home
  Links <- MCLinks
  UrlLimits = {2, 4}
  Depths = {1, 2}
  Concurrency = 2
  ResultChunk = 2
  IssueChunk = 5
  LinkChunk = 10
  IssuesPerPage = 2
  LinksPerPage = 5
  MaxFaults = 2
INVARIANTS
  TypeOK
  WithinBudget
  CrawlIsExhaustive
  EngineIsDrained
  ResultsAreStored
PROPERTIES
  CancelStopsFetching
  JobSettles
CHECK_DEADLOCK FALSE
