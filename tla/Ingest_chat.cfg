\* Two messages; one fault: a crash (and a receipt given again), a failed call, or
\* a message the cache forgets.
SPECIFICATION Spec
CONSTANTS
  a1 = a1
  a2 = a2
  Assistants <- MCAssistants
  NMessages = 2
  Concurrency = 2
  MaxStalls = 1
  MaxFaults = 1
  MaxRedeliveries = 1
INVARIANTS
  TurnsAndHolds
SYMMETRY Swap
CHECK_DEADLOCK FALSE
