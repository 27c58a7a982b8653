SPECIFICATION Spec
CONSTANTS
  Jobs = {j1}
  MaxAttempts = 2
  MaxPlaces = 2
  Deletable = {j1}
  None = None
CHECK_DEADLOCK FALSE
INVARIANTS
  AwaitedResultComes
  CompletedHasRow
  EmptyMeansAllReported
PROPERTIES
  EventuallySettled
