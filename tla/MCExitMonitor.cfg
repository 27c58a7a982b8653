SPECIFICATION Spec
CONSTANTS
  Seeds = {s1, s2}
  Places = {p1, p2, p3}
  MaxSubpages = 2
CHECK_DEADLOCK FALSE
INVARIANTS
  FlushIsComplete
PROPERTIES
  DetectsTermination
  EventuallyEnds
