SPECIFICATION FairSpec
CONSTANTS
  c1 = c1
  c2 = c2
  a = a
  Calls = {c1, c2}
  Watched = {c1}
  Jobs = {a}
  JobOf <- OfOneJob
  Remote = TRUE
  MaxRestarts = 1
INVARIANTS
  TranscriptWhole
  ModelLoadedOnce
  AllReported
PROPERTIES
  CancelReaches
CHECK_DEADLOCK FALSE
