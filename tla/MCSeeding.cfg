SPECIFICATION Spec
CONSTANTS
  Requests <- MCRequests
  Boxes <- MCBoxes
  NoBox = NoBox
  BadBox = BadBox
  q1 = q1
  q2 = q2
  q3 = q3
  q4 = q4
  p1 = p1
  p2 = p2
  p3 = p3
  Queries = {q1, q2, q3, q4}
  Variations <- MCVariations
  Blank = Blank
  NoText = NoText
  Feeds <- MCFeeds
  Anywhere = Anywhere
  Places = {p1, p2, p3}
  Workers = {w1, w2}
  NoPlace = NoPlace
  NoSeed = NoSeed
  Targets <- MCTargets
  MaxGridCells = 6
  DefaultCellKm = 5
  MinCellKm = 1
  MaxCellKm = 30
CHECK_DEADLOCK FALSE
INVARIANTS
  GridIsBounded
  PlanIsAccepted
  GridCovers
  OneJobPerLink
