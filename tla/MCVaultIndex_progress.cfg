SPECIFICATION FairSpec
CONSTANTS
  Paths = {p1, p2}
  Bodies = {a}
  Size <- EqualSize
  Buffer = 1
  FreshMtimes = TRUE
  Absent = Absent
  Sentinel = Sentinel
  MaxClock = 2
  MaxFaults = 1
  MaxOps = 2
  MaxOrphans = 1

PROPERTIES BacklogDrains StopCompletes
CHECK_DEADLOCK FALSE
