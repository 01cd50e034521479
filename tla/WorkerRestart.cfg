SPECIFICATION Spec
CONSTANTS
  w1 = w1
  w2 = w2
  t1 = t1
  t2 = t2
  web = web
  Nobody = Nobody
  Gone = Gone
  Runners = {w1}
  Workers = {w1}
  Procs = {w1}
  ProcOf <- OneWorker
  Jobs = {1, 2}
  FirstStep = 1
  MaxConcurrentJobs = 1
  QueueBackend = "worker"
  SubtitlesEnabled = TRUE
  LeaseOutlivesWork = TRUE
  UserOps = {"retry"}
  MaxOps = 1
  MaxCrashes = 1
INVARIANTS
  RunningStepIsAttended
  ActiveJobIsAttended
  DoneMeansComplete
  SlotLimit
PROPERTIES
  OutputsSurvive
CHECK_DEADLOCK FALSE
