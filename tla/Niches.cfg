SPECIFICATION Spec
CONSTANTS
  v = v
  w = w
  j1 = j1
  j2 = j2
  j3 = j3
  t1 = t1
  t2 = t2
  Workspaces = {v, w}
  Global = "global"
  Threads = {t1, t2}
  Jobs <- MCJobs
  OwnerOf <- MCOwnerOf
  Names = {"geral", "x"}
  Fallback = "geral"
  OldProfiles = {"geral"}
  NewProfiles = {"geral", "x"}
  MinOccurrences = 3
  MinJobs = 2
  MaxSaid = 2
  MaxCopies = 2
  MaxRequests = 2
SYMMETRY Symmetry
CHECK_DEADLOCK FALSE
INVARIANTS
  OnlyOwnerWrites
  KeywordsEarned
