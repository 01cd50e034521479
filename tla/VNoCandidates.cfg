SPECIFICATION Spec
CONSTANTS
  w1 = w1
  w2 = w2
  t1 = t1
  t2 = t2
  web = web
  Nobody = Nobody
  Gone = Gone
  Runners = {w1}
  Workers = {w1}
  Procs = {w1}
  ProcOf <- OneWorker
  Jobs = {1}
  FirstStep = 4
  MaxConcurrentJobs = 1
  QueueBackend = "worker"
  SubtitlesEnabled = FALSE
  LeaseOutlivesWork = TRUE
  UserOps = {}
  MaxOps = 0
  MaxCrashes = 1
INVARIANTS
  DoneHasCandidates
CHECK_DEADLOCK FALSE
