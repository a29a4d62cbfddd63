SPECIFICATION Spec
CONSTANTS
  t1 = t1
  t2 = t2
  v1 = v1
  v2 = v2
  v3 = v3
  Table = {t1}
  Voter = {v1, v2}
  TableOf <- OneTableOf
  Node = {1, 2}
  Auditor = {1, 2}
  GenesisNodes = {1}
  Joining = {2}
  Receiver = {"zec"}
  ActiveSets <- BothActive
  Amounts = {1}
  ReportInterval = 0
  BatchLimit = 1
  MinVotes = 1
  MaxNodes = 1
  MaxHeld = 1
  MaxTime = 3
INVARIANTS AbolishedVotesReported
CHECK_DEADLOCK FALSE
