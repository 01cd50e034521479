SPECIFICATION FairSpec
CONSTANTS
  c1 = c1
  c2 = c2
  q1 = q1
  q2 = q2
  None = None
  Checkouts = {c1, c2}
  Requests = {q1}
  Providers = {"stripe", "mock"}
  Offered = {"free", "pro"}
  InOrder = TRUE
  TrialDays = 1
  Month = 2
  MaxTime = 3
INVARIANTS
  TypeOK
  PlanWasBought
  OneRowPerSubscription
PROPERTIES
  EndsWithSubscription
CHECK_DEADLOCK FALSE
