SPECIFICATION AccessSpec
CONSTANTS
  Browsers = {b1, b2}
  None = None
  Limit = 1
  LoginWindow = 2
  CodeWindow = 2
  CleanupAge = 3
  MaxDelay = 1
  MaxTime = 4
  CodesPerSet = 1
  MaxSets = 2
  MaxRequests = 3
CHECK_DEADLOCK FALSE
INVARIANTS
  CodeUsedOncePerStore
  AttemptsAreSpread
SYMMETRY Symmetry
