SPECIFICATION Spec
CONSTANTS
  t1 = t1
  t2 = t2
  n1 = n1
  n2 = n2
  Table = {t1, t2}
  Node = {n1, n2}
  Contents <- MCContents
  FullInterval = 2
  TableInterval = 3
  TimeInterval = 1
  SlashPercent = 50
  SlashThreshold = 80
  AwardPercent = 50
  AwardThreshold = 60
  MaxBlocks = 2
  MaxTime = 3
INVARIANTS TypeOK SignaturesCountOnce SlashRounds WorkloadConserved
CHECK_DEADLOCK FALSE
