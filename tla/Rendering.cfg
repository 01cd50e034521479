SPECIFICATION Spec
CONSTANTS
  t1 = t1
  t2 = t2
  c1 = c1
  c2 = c2
  Threads = {t1, t2}
  Ranks = {}
  Manuals = {9}
  FirstId = 3
  ReusesIds = FALSE
  Decisions = {"approved"}
  Cuts = {c1, c2}
  MaxId = 4
  MaxClips = 2
  MaxPlain = 1
INVARIANTS
  RenderedHasClip
  FileShowsClip
SYMMETRY Symmetry
CHECK_DEADLOCK FALSE
