SPECIFICATION Spec
CONSTANTS
  t1 = t1
  t2 = t2
  w1 = w1
  w2 = w2
  Threads = {t1, t2}
  Workers = {w1, w2}
  Videos = {4}
  FreeLimit = 5
  PaidLimit = 10
  TrialMax = 2
  Month = 2
  MaxDay = 2
  MaxJobs = 2
  MaxDeaths = 1
INVARIANTS
  MeteredOnce
  WarningsBounded
  TrialBounded
PROPERTIES
  ChargedOnce
SYMMETRY Symmetry
CHECK_DEADLOCK FALSE
