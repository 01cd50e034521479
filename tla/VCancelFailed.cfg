SPECIFICATION Spec
CONSTANTS
  w1 = w1
  w2 = w2
  t1 = t1
  t2 = t2
  web = web
  Nobody = Nobody
  Gone = Gone
  Runners = {w1, t1}
  Workers = {w1}
  Procs = {w1, web}
  ProcOf <- WorkerAndThread
  Jobs = {1}
  FirstStep = 3
  MaxConcurrentJobs = 1
  QueueBackend = "worker"
  SubtitlesEnabled = FALSE
  LeaseOutlivesWork = TRUE
  UserOps = {"cancel"}
  MaxOps = 1
  MaxCrashes = 0
INVARIANTS
  CancelIsNotAFailure
CHECK_DEADLOCK FALSE
