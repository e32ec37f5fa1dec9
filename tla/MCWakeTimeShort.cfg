SPECIFICATION Spec
CONSTANTS
  Hours = 3
  MinutesInHour = 2
  Empty = Empty
  Candidates <- Times
  Garbage <- AnyNumber
  MaxTimes = 1
INVARIANT AcceptedTimesConvert
CHECK_DEADLOCK FALSE
