SPECIFICATION FairSpec
CONSTANTS
  t1 = t1
  t2 = t2
  v1 = v1
  v2 = v2
  v3 = v3
  Table = {t1}
  Voter = {v1}
  TableOf <- OneVoterOf
  Node = {1, 2, 3}
  Auditor = {1, 2, 3}
  GenesisNodes = {1, 2, 3}
  Joining = {}
  Receiver = {"rec", "zec"}
  ActiveSets <- AllActive
  Amounts = {1}
  ReportInterval = 0
  BatchLimit = 2
  MinVotes = 1
  MaxNodes = 3
  MaxHeld = 1
  MaxTime = 2
INVARIANTS ReportArrivesWhole
PROPERTIES ReportsReachRec TalliesFollowReports
CHECK_DEADLOCK FALSE
