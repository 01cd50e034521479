SPECIFICATION MCSpec
CONSTANTS
  Sizes = {1, 2}
  Gaps = {0}
  Segments = {0, 6}
  Lengths = {1, 7, 15}
  Words = 4
  Times = {0, 40, 5999, 6000, 360000}
  Near3 = {0, 40, 100}
  Transcripts <- MCTranscripts
  Span = 6
  Lap = 4
  Shortest = 4
  Longest = 6
  Stride = 1
  Tolerance = 1
  Ratio = 90
  RelaxedTolerance = 0
  RelaxedRatio = 97
  Limits <- MCLimits
  TopN = 2
  Weight = 1
  Scores = {0, 2000}
  MaxAnswers = 2
  Concurrent = FALSE
  MaxWordsPerLine = 2
  MaxCharsPerLine = 14
  MaxLines = 2
  Karaoke = TRUE
  OverlapThreshold = 50
  Scripts <- MCScripts
CHECK_DEADLOCK FALSE
INVARIANTS
  BestFirst
  Distinct
  FewOnlyIfAlike
  WordsKept
  LinesFit
  CaptionsOnTime
