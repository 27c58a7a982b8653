SPECIFICATION Spec
CONSTANTS
  Seeds = {s1, s2}
  Places = {a, b}
  Processes = {p1, p2}
  BatchSize = 2
  MaxBatch = 2
  Unstorable = {b}
  None = None
CHECK_DEADLOCK FALSE
INVARIANTS
  NoJobTwice
PROPERTIES
  EventuallyHandedOut
  ReturnedMeansStored
  ImplementsTable
