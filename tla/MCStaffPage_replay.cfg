CONSTANTS
  None = None
  Calls = {k1, k2}
  Queries = {q1, q2}
  NoFilter = q1
  MaxLoads = 3
  MaxSaves = 1
  MaxTokens = 2
SPECIFICATION FairSpec
INVARIANTS PageTypeOK ShowsLatest AppliedOnce 
PROPERTIES CallsEnd
CHECK_DEADLOCK FALSE
