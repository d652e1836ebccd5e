SPECIFICATION Spec
CONSTANTS
  Handlers = {h1, h2}
  h1 = h1
  h2 = h2
  MaxChanges = 3
  MaxSchedules = 2
  MaxIncidents = 1
  MaxTotal = 4
INVARIANTS
  NothingIsLostSilently
  RowFollowsStripe
  ScheduleIsKnown
  PayingIsServed
SYMMETRY Symmetry
CHECK_DEADLOCK FALSE
