SPECIFICATION Spec
CONSTANTS
  Ids = {v1, v2}
  Names = {n1, n2}
  Paths = {d1, d2}
  Clients = {c1}
  Ops <- ChangingOps
  Runners = {1, 2, 3}
  Tasks = {1, 2, 3, 4}
  Absent = Absent
  Ended = Ended
  MaxOps = 5
  MaxCrashes = 2
  MaxFaults = 0
  MaxDisconnects = 0
  MaxMoves = 1
SYMMETRY Perms
INVARIANTS QuietAgreement
CHECK_DEADLOCK FALSE
