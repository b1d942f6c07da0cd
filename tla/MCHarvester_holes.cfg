SPECIFICATION Spec
CONSTANTS
  g = g
  a1 = a1
  a2 = a2
  a3 = a3
  a4 = a4
  a5 = a5
  b2 = b2
  b3 = b3
  b4 = b4
  null = null
  Block <- MCBlock
  Number <- MCNumber
  Parent <- MCParent
  Paths <- MCPaths
  Genesis = g
  NoBlock = null
  MaxHeight = 4
  Limit = 2
  Wide = 1
  Threads = 2
  Floor = 1
  ChunkSize = 2
  Confirmations = 0
  FinalizationOnly = TRUE
  HalfAdds = FALSE
  MaxTasks = 1
  MaxFaults = 1
PROPERTIES
  HolesAreHoles
