SPECIFICATION Spec
CONSTANTS
  w1 = w1
  w2 = w2
  t1 = t1
  t2 = t2
  web = web
  Nobody = Nobody
  Gone = Gone
  Runners = {t1, t2}
  Workers = {}
  Procs = {web}
  ProcOf <- TwoThreads
  Jobs = {1}
  FirstStep = 4
  MaxConcurrentJobs = 1
  QueueBackend = "local"
  SubtitlesEnabled = FALSE
  LeaseOutlivesWork = FALSE
  UserOps = {"upload", "create_local", "retry", "page_retry", "retry_step", "page_retry_step", "reset_step", "cancel", "analyze_without_llm", "delete"}
  MaxOps = 1
  MaxCrashes = 1
INVARIANTS
  TypeOK
  LeaseHeld
CHECK_DEADLOCK FALSE
