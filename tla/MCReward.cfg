CONSTANTS
  Precision = 100
  TaskLimit = 1
  TasksPerRound = 6
  Table = {"t1", "t2"}
  Node = {1, 2, 3}
  TableOf <- MCTableOf
  Registries <- MCRegistries
  TicketSets <- MCTicketSets
  Workloads <- MCWorkloads
  Ratio <- MCRatio
  ZeroWorkload <- MCZeroWorkload
  TotalReserve = 8000
  MinimumIssuance = 2501
  IssuanceRate = 50
  ClocksPerYear = 4
  DistributeInterval = 2
  HeightStep = 1
  ReadTimeout = 2
  MaxHeight = 1
  MaxReports = 1
  MaxTime = 9
SPECIFICATION Spec
INVARIANTS TypeOK IssuanceIsSpent IssuanceFollowsSchedule
CHECK_DEADLOCK FALSE
