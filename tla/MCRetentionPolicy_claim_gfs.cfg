SPECIFICATION Spec
CONSTANTS
  Source = {s1}
  MaxBackups = 4
  MaxTime = 5
  Ticks = 2
  DayLen = 2
  Calendar <- SmallCalendar
  Policies <- AllPolicies
CHECK_DEADLOCK FALSE
INVARIANTS GFSDeletesTheRest
