SPECIFICATION Spec
CONSTANTS
  j1 = j1
  j2 = j2
  p1 = p1
  Jobs = {j1, j2}
  Places = {p1}
  Emissions <- TwoJobs
  QueueCap = 1
  Workers = 2
CHECK_DEADLOCK FALSE
INVARIANTS
  CounterExact
  DrainedFileIsFinal
  PendingIsAccountedFor
PROPERTIES
  PoolDrains
