SPECIFICATION Spec
CONSTANTS
  Ids = {v1, v2}
  Names = {n1, n2}
  Paths = {d1, d2}
  Clients = {c1, c2}
  Ops <- ChangingOps
  Runners = {1, 2, 3}
  Tasks = {1, 2, 3, 4}
  Absent = Absent
  Ended = Ended
  MaxOps = 4
  MaxCrashes = 1
  MaxFaults = 0
  MaxDisconnects = 0
  MaxMoves = 0
SYMMETRY Perms
INVARIANTS TypeOK OneLifecyclePerRunner DrainedIsQuiet
PROPERTIES DirGoesAfterRow
CHECK_DEADLOCK FALSE
