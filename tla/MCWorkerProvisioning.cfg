SPECIFICATION WorkersSpec
CONSTANTS
  Rows = {r1}
  MaxDeletes = 2
  MaxTries = 3
  MaxWorkers = 2
CHECK_DEADLOCK FALSE
INVARIANTS
  ActiveIsDeletable
  KnownMachineIsDestroyed
PROPERTIES
  DeletedRowIsFrozen
  RequestsEnd
