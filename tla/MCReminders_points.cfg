SPECIFICATION Spec
CONSTANTS
  MaxBlock = 3
  MaxRemovals = 3
  Histories <- MCHistories
INVARIANTS
  PointsBalance
CHECK_DEADLOCK FALSE
