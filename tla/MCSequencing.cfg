SPECIFICATION Spec
CONSTANTS
  MaxBlock = 3
  Chains <- MCChains
  Orders <- MCOrders
  Versions <- MCVersions
  FullBlocks = {0, 2}
  Holders = {Alice, Bob, Carol}
  Late = {3}
  Registrars = {Alice}
  MaxFailures = 2
  MaxRequests = 1
  Updated <- MCUpdated
  MaxUpdates = 1
  Rebuilt <- MCRebuilt
  MaxRebuilds = 1
  MaxPieces = 20
  Null = Null
  SkippedBlock = 2
  Alice = Alice
  Bob = Bob
  Carol = Carol
  Treasury = Treasury
INVARIANTS
  TotalsAddUp
  BurnNotUnderstated
  SessionsHoldBlocks
  ReapedFollowsAudits
  IdentityFollowsAudits
  IndexOwner
  RolesFollow
  BalancesLatest
  CanGoOn
CHECK_DEADLOCK FALSE
