SPECIFICATION IdleSpec
CONSTANTS
  NRows = 2
  Slow = {2}
  VisionBatch = 1
  MaxRows = 2
  MaxRuns = 2
  MaxCrashes = 1
  NMsgs = 2
  IndexBatch = 1
  MaxTried = 3
  Pictures = {1}
  Wordless = {2}
  Editable = {1}
  MaxTextEdits = 2
INVARIANTS
  OneDescriptionTold
  NothingForgotten
  IndexKeepsUp
PROPERTIES
  JobsEnd
CHECK_DEADLOCK FALSE
