SPECIFICATION Spec
CONSTANTS
  home = home
  a = a
  b = b
  c = c
  Urls = {home, a, b, c}
  Start = home
  Links <- MCLinks
  UrlLimits = {4}
  Depths = {2}
  Concurrency = 2
  ResultChunk = 4
  IssueChunk = 10
  LinkChunk = 20
  IssuesPerPage = 5
  LinksPerPage = 10
  MaxFaults = 0
INVARIANT
  CompletedIsComplete
CHECK_DEADLOCK FALSE
