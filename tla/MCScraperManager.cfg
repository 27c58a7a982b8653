SPECIFICATION Spec
CONSTANTS
  NumJobs = 3
  MaxJobs = 2
  MaxCycles = 2
  Concurrency = 1
  InCap = 1
  JobCap = 1
  PlaceCounts = {0, 3}
  Idle = Idle
CHECK_DEADLOCK FALSE
INVARIANTS
  AtMostOneScraper
  WedgedOnlyAfterTimeout
  NoMissedRestart
PROPERTIES
  RestartsComplete
