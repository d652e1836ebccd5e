SPECIFICATION FairSpec
CONSTANTS
  Workers = {w1}
  w1 = w1
  Submissions = {s1}
  s1 = s1
  Targets = {email, webhook}
  email = email
  webhook = webhook
  MaxAttempts = 2
  BatchSize = 2
  MaxIncidents = 1
INVARIANTS
  TypeOK
  AttemptsCoverSends
  ExcessIsExplained
  AlertTellsFailures
  InquiriesAreRouted
PROPERTIES
  DeliveriesSettle
CHECK_DEADLOCK FALSE
