SPECIFICATION Spec
CONSTANTS
  t1 = t1
  t2 = t2
  v1 = v1
  v2 = v2
  v3 = v3
  Table = {t1, t2}
  Voter = {v1, v2, v3}
  TableOf <- TwoTablesOf
  Node = {1}
  Auditor = {1}
  GenesisNodes = {}
  Joining = {1}
  Receiver = {"rec", "zec"}
  ActiveSets <- OneActive
  Amounts = {1, 2}
  ReportInterval = 1
  BatchLimit = 1
  MinVotes = 1
  MaxNodes = 1
  MaxHeld = 1
  MaxTime = 4
INVARIANTS TypeOK TotalsAreSums
CHECK_DEADLOCK FALSE
