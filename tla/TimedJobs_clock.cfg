SPECIFICATION Spec
CONSTANTS
  NDays = 2
  NSlots = 3
  MaxRestarts = 1
  MaxChanges = 2
  t1 = t1
  t2 = t2
  Tasks = {t1, t2}
  MaxAttempts = 2
  MaxEdits = 2
  MaxMishaps = 1
  Hours = 4
  Week = 2
  LastHour = 10
  Zones <- MCZones
  Elsewhere <- MCElsewhere
  UTC <- MCUTC
  Triggers <- MCTriggers
  HistoryDays = 3
  PageSize = 2
  MaxDays = 4
  Busy = {1, 3}
  MaxCount = 2
INVARIANTS
  OneRunADay
  SettledAsItWent
  CountedDaysCovered
PROPERTIES
  ClockServesAll
CHECK_DEADLOCK FALSE
