SPECIFICATION FairSpec
CONSTANTS
  Vaults = {v1, v2}
  Streams = {s1}
  Capacity = 2
  MaxEvents = 4
  MaxOps = 1
INVARIANTS TypeOK NoSilentGap OnlyPinned
PROPERTIES ReadersCatchUp
CHECK_DEADLOCK FALSE
