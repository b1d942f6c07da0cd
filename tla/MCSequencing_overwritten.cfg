SPECIFICATION Spec
CONSTANTS
  MaxBlock = 3
  Chains <- MCUpdated
  Orders <- MCOrders
  Versions <- MCVersions
  FullBlocks = {0, 2}
  Holders = {Alice, Bob, Carol}
  Late = {2, 3}
  Registrars = {Alice}
  MaxFailures = 0
  MaxRequests = 0
  Updated <- MCUpdated
  MaxUpdates = 2
  Rebuilt <- MCRebuilt
  MaxRebuilds = 0
  MaxPieces = 20
  Null = Null
  SkippedBlock = 2
  Alice = Alice
  Bob = Bob
  Carol = Carol
  Treasury = Treasury
INVARIANTS
  BalancesMostRecent
CHECK_DEADLOCK FALSE
