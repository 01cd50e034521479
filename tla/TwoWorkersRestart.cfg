SPECIFICATION FairSpec
CONSTANTS
  w1 = w1
  w2 = w2
  t1 = t1
  t2 = t2
  web = web
  Nobody = Nobody
  Gone = Gone
  Runners = {w1, w2}
  Workers = {w1, w2}
  Procs = {w1, w2}
  ProcOf <- TwoWorkers
  Jobs = {1}
  FirstStep = 5
  MaxConcurrentJobs = 1
  QueueBackend = "worker"
  SubtitlesEnabled = FALSE
  LeaseOutlivesWork = TRUE
  UserOps = {"retry"}
  MaxOps = 2
  MaxCrashes = 1
INVARIANTS
  ExclusiveSection
  AttemptLimit
PROPERTIES
  Settles
CHECK_DEADLOCK FALSE
