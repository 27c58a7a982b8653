SPECIFICATION Spec
CONSTANTS
  Jobs = {j1}
  Places = {p1, p2}
  Requests = {h1, h2}
  MaxRestarts = 1
CHECK_DEADLOCK FALSE
INVARIANTS
  FileMatchesRows
  DeletedLeavesNothing
PROPERTIES
  StatusMovesForward
  RunsEnd
