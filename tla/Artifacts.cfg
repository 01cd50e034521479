SPECIFICATION FairStorageSpec
CONSTANTS
  t1 = t1
  t2 = t2
  a = a
  b = b
  source = source
  Threads = {t1}
  ClipFiles = {a, b}
  Source = source
  Remote = TRUE
  Preserve = TRUE
  MaxClips = 2
  MaxExports = 1
  MaxFaults = 1
PROPERTIES
  ProtectedKept
  Reclaimed
CHECK_DEADLOCK FALSE
