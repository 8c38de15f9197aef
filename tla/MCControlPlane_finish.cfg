SPECIFICATION FairSpec
CONSTANTS
  Ids = {v1, v2}
  Names = {n1}
  Paths = {d1}
  Clients = {c1, c2}
  Ops <- AllOps
  Runners = {1, 2, 3}
  Tasks = {1, 2, 3, 4}
  Absent = Absent
  Ended = Ended
  MaxOps = 2
  MaxCrashes = 1
  MaxFaults = 1
  MaxDisconnects = 1
  MaxMoves = 0
PROPERTIES OpsFinish LeaksEnd KeepsLifecycle
CHECK_DEADLOCK FALSE
