SPECIFICATION Spec
CONSTANTS
  w1 = w1
  w2 = w2
  t1 = t1
  t2 = t2
  web = web
  Nobody = Nobody
  Gone = Gone
  Runners = {w1, w2}
  Workers = {w1, w2}
  Procs = {w1, w2}
  ProcOf <- TwoWorkers
  Jobs = {1}
  FirstStep = 5
  MaxConcurrentJobs = 1
  QueueBackend = "worker"
  SubtitlesEnabled = FALSE
  LeaseOutlivesWork = FALSE
  UserOps = {}
  MaxOps = 0
  MaxCrashes = 0
INVARIANTS
  OneRunnerPerJob
CHECK_DEADLOCK FALSE
