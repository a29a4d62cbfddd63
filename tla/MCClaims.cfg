CONSTANTS
  Precision = 4
  TaskLimit = 1
  TasksPerRound = 3
  Table = {"t1"}
  Node = {1, 2}
  Voter = {11, 12}
  TableOf <- MCTableOf
  VotesHeld <- MCVotesHeld
  GivenRewards <- MCGivenRewards
  OldNodeRecords <- MCOldNodeRecords
  OldVoterRecords <- MCOldVoterRecords
  DecimalsWidth = 6
  min_node_reward = 0
  min_voter_dividend = 1
  MaxRounds = 2
SPECIFICATION FairSpec
INVARIANTS TypeOK Solvent RecordsAddUp
PROPERTIES RoundsAreCarriedOut PaidOnce
