SPECIFICATION Spec
CONSTANTS
  Ids = {v1, v2, v3}
  Legacy = Legacy
  Absent = Absent
  LegacyPath = vault
  OtherPath = other
  HotEdits = FALSE
  MaxStarts = 4
  MaxOps = 4
SYMMETRY Perms
INVARIANTS StoreWhole ScanCompletes
PROPERTIES KeepsDatabases
CHECK_DEADLOCK FALSE
