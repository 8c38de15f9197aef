CONSTANTS
  Vaults = {1, 2}
  Names = {"n", "m"}
  Paths = {1, 2}
  Dir = {2}
  Literal = {1}
  Pattern = {2}
  Texts = {1, 2, 3, 4}
  Score <- MCScore
  Indexes <- MCIndexes
  Requests <- MCRequests
  Multiplier = 2
  CandidateCap = 3
  MaxLimit = 2
  MaxChunks = 2
  MaxChanges = 2
  MaxFaults = 1
SPECIFICATION Spec
CHECK_DEADLOCK FALSE
INVARIANTS EveryVaultAccounted NothingBetterOmitted EveryPathAnswered DocumentsWhole OneVaultFailsAlone
