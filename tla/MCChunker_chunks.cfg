SPECIFICATION Spec
CONSTANTS
  Documents <- Docs
  Texts <- DocTexts
  NoText = ""
  Nothing = Nothing
  Target = 2
INVARIANTS NothingLost PathsTrue BoundariesMeet BreaksInTime
CHECK_DEADLOCK FALSE
