SPECIFICATION Spec
CONSTANTS
  Workers = {w1}
  w1 = w1
  Submissions = {s1}
  s1 = s1
  Targets = {email}
  email = email
  MaxAttempts = 2
  BatchSize = 2
  MaxIncidents = 1
PROPERTY
  ReplaysSpareDelivered
CHECK_DEADLOCK FALSE
