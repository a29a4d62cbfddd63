SPECIFICATION Spec
CONSTANTS
  n1 = n1
  n2 = n2
  n3 = n3
  n4 = n4
  n5 = n5
  Node <- MCNode
  Pools <- MCPools
  SeedPool <- MCSeedPool
  Ranges <- MCRanges
  AuditorCount = 2
  ValidatorCount = 2
  Seeds = {0}
  ElectionInterval = 5
  MaxRotatedClusters = 1
  RotationRatio = 50
  MinimumRotation = 50
  HeightStep = 2
  ReadTimeout = 1
  MaxHeight = 2
  MaxTime = 3
INVARIANTS TypeOK ElectionsSound
PROPERTIES RotationBounded CallsElectClusters
CHECK_DEADLOCK FALSE
