SPECIFICATION Spec
CONSTANTS
  Files <- AllFiles
  DotNames <- Dots
  ConflictNames <- Conflicts
  Unseen <- Behind
  Outside <- Elsewhere
  IgnorePatterns <- Patterns
  Respect = TRUE
  GitIgnores <- Ignores
  Vaults <- FullOrEmpty
  MaxChanges = 4
INVARIANTS PlainInSync OverrideHolds
CHECK_DEADLOCK FALSE
