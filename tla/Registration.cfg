SPECIFICATION Spec
CONSTANTS
  r1 = r1
  r2 = r2
  r3 = r3
  e1 = e1
  e2 = e2
  Requests = {r1, r2, r3}
  Forms <- MCForms
  NoKey = NoKey
  Keys <- MCKeys
  Limit <- MCLimit
  Window <- MCWindow
  MaxSkew = 1
  MaxTime = 4
  SessionAge = 1
INVARIANTS
  AccountsDistinct
  SessionHasWorkspace
  SlidingWindow
PROPERTIES
  RejectedForCause
SYMMETRY Symmetry
CHECK_DEADLOCK FALSE
