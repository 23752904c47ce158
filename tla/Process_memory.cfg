\* Four interactive calls for two slots and three background calls; a trace a month.
SPECIFICATION ProcessSpec
CONSTANTS
  Interactive = {i1, i2, i3, i4}
  Background = {b1, b2, b3}
  Cap = 2
  jan = jan
  feb = feb
INVARIANTS
  StoreAgrees
  NoLostWakeup
  TracesKept
PROPERTIES
  CallsRunTracesLand
CHECK_DEADLOCK FALSE
