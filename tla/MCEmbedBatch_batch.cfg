CONSTANTS
  Calls = {1, 2}
  a = a
  b = b
  c = c
  d = d
  x = x
  Texts = {a, b, c, d, x}
  Bad = {x}
  Inputs <- MCInputs
  Queries = {a, x}
  Limits = {1, 2, 3}
  BatchSize = 4
  MaxRetries = 1
SPECIFICATION FairSpec
CHECK_DEADLOCK FALSE
INVARIANTS Aligned NoSpuriousFailure BatchingSurvives
PROPERTY CallsEnd
