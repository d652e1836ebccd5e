SPECIFICATION HistorySpec
CONSTANTS
  Requests = {r1, r2}
  r1 = r1
  r2 = r2
  Pages = {p1, p2}
  p1 = p1
  p2 = p2
  LivePages = {p1}
  FirstSettings = 1
  MaxDeployments = 2
  MaxVersion = 3
  MaxFaults = 0
INVARIANT
  CaptureIsAtomic
CHECK_DEADLOCK FALSE
