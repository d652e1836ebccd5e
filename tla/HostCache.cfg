SPECIFICATION FairSpec
CONSTANTS
  Sites = {s1, s2}
  s1 = s1
  s2 = s2
  Processes = {p1, p2}
  p1 = p1
  p2 = p2
  None = None
INVARIANTS
  StaleCopyHasCause
PROPERTY
  CopiesConverge
