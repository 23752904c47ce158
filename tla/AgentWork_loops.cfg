\* A generation of two calls, and two runs of two processes.
SPECIFICATION WorkSpec
CONSTANTS
  Calls = {k1, k2}
  MaxRounds = 8
  MaxStallRounds = 3
  MaxEmptyRetries = 1
  HasFinal = TRUE
  Malformed = TRUE
  Runs = {1, 2}
  Procs = {1, 2}
  MaxMishaps = 1
INVARIANTS
  StallGuard
  RowsTellTheRuns
PROPERTIES
  NoReplayAfterGlitch
  WorkEnds
CHECK_DEADLOCK FALSE
