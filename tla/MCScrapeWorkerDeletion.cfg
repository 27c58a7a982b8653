SPECIFICATION Spec
CONSTANTS
  Jobs = {j1}
  MaxAttempts = 1
  MaxPlaces = 1
  Deletable = {j1}
  None = None
CHECK_DEADLOCK FALSE
INVARIANTS
  DeletedJobLeavesNoResults
