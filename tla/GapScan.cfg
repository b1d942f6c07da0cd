SPECIFICATION Spec
CONSTANTS
  Floor = 1
  Limit = 2
  Wide = 4
  Threads = 3
  MaxId = 9
INVARIANTS
  ScanFindsGaps
  WalkIsPieces
  PiecesAreMissing
