SPECIFICATION Spec
CONSTANTS
  Operators = {o1, o2}
  o1 = o1
  o2 = o2
  Handlers = {h1, h2}
  h1 = h1
  h2 = h2
  Nobody = Nobody
  MaxRequests = 2
  MaxFaults = 1
INVARIANTS
  TypeOK
  FourEyes
  RefundedOnce
  ExecutedIsTrue
CHECK_DEADLOCK FALSE
