SPECIFICATION AccumulationSpec
CONSTANTS
  MaxBlock = 3
  MaxRemovals = 2
  MaxLost = 1
  MaxRebuilds = 1
  Searched <- MCSearched
  Null = Null
  SkippedBlock = 2
  Alice = Alice
  Bob = Bob
  Carol = Carol
  Treasury = Treasury
  FullBlocks = {3}
  Holders = {Carol, Treasury}
  Histories <- MCHistories
  Themes <- MCThemes
  Plain <- PlainTheme
  Pallets <- MCPallets
INVARIANTS
  IndexComplete
  IndexExact
  PointsAddUp
  LatestTerms
  RowsOfHarvested
  Isolated
  SnapshotsCurrent
  CountersMatchRows
  RequestsAddUp
  EstimatesListed
  ChecksListed
  RuntimesWhole
CHECK_DEADLOCK FALSE
