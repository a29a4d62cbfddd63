SPECIFICATION Spec
CONSTANTS
  t1 = t1
  t2 = t2
  n1 = n1
  n2 = n2
  Table = {t1}
  Node = {n1, n2}
  Contents <- LateContents
  FullInterval = 2
  TableInterval = 9
  TimeInterval = 1
  SlashPercent = 0
  SlashThreshold = 0
  AwardPercent = 0
  AwardThreshold = 0
  MaxBlocks = 2
  MaxTime = 1
PROPERTIES WorkloadReportsAscend
CHECK_DEADLOCK FALSE
