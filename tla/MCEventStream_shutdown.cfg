SPECIFICATION FairSpec
CONSTANTS
  Vaults = {v1}
  Streams = {s1}
  Capacity = 2
  MaxEvents = 1
  MaxOps = 1
PROPERTY ShutdownEndsStreams
CHECK_DEADLOCK FALSE
