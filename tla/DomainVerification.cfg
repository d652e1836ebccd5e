SPECIFICATION FairSpec
CONSTANTS
  Checks = {c1, c2}
  c1 = c1
  c2 = c2
  MaxFaults = 1
  None = None
INVARIANTS
  TypeOK
  ActiveIsEarned
PROPERTIES
  AlertCatchesUp
  LiveIsFound
  ImplementsHolder
