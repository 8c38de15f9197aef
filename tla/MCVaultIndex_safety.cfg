SPECIFICATION Spec
CONSTANTS
  Paths = {p1, p2}
  Bodies = {a, b}
  Size <- EqualSize
  Buffer = 1
  FreshMtimes = TRUE
  Absent = Absent
  Sentinel = Sentinel
  MaxClock = 3
  MaxFaults = 1
  MaxOps = 2
  MaxOrphans = 0
SYMMETRY Perms
INVARIANTS TypeOK ChunksFollowHash TextFollowsHash FreshStat QuietMeansSynced
  NoWriteConflict ViewExact
PROPERTY AnnouncesEveryChange
CHECK_DEADLOCK FALSE
