SPECIFICATION Spec
CONSTANTS
  Hours = 2
  MinutesInHour = 2
  Empty = Empty
  Candidates <- Times
  Garbage <- AnyNumber
  MaxTimes = 3
INVARIANT IInv AlarmIsNextWake FullTimesAreKept
CHECK_DEADLOCK FALSE
