\* Two changes of the row and two failures, in any order.
SPECIFICATION Spec
CONSTANTS
  Configs = {"k1", "k2"}
  MaxChanges = 2
  MaxFailures = 2
INVARIANTS
  RetryKept
  NoRetryUnwanted
PROPERTIES
  HeldAndConverges
CHECK_DEADLOCK FALSE
