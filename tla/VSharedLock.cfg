SPECIFICATION Spec
CONSTANTS
  w1 = w1
  w2 = w2
  t1 = t1
  t2 = t2
  web = web
  Nobody = Nobody
  Gone = Gone
  Runners = {t1, t2}
  Workers = {}
  Procs = {web}
  ProcOf <- TwoThreads
  Jobs = {1}
  FirstStep = 5
  MaxConcurrentJobs = 1
  QueueBackend = "local"
  SubtitlesEnabled = FALSE
  LeaseOutlivesWork = TRUE
  UserOps = {"retry"}
  MaxOps = 1
  MaxCrashes = 0
INVARIANTS
  OneRunnerPerJob
CHECK_DEADLOCK FALSE
