SPECIFICATION Spec
CONSTANTS
  alice = alice
  bob = bob
  carol = carol
  dave = dave
  erin = erin
  frank = frank
  fee = fee
  wl = wl
  tcc = tcc
  ex = ex
  Address <- MCAddress
  Proposer <- MCProposer
  UserAddress <- MCUserAddress
  Param <- MCParam
  BwParam <- MCBwParam
  TccMember = tcc
  ExpireTime = ex
  GenesisParams <- MCGenesis
  Requests <- BookRequests
  Deposits = {0, 1}
  MinDeposit = 1
  Durations = {1}
  MaxId = 2
  MaxTime = 3
INVARIANTS TypeOK BallotsMatchProposals DepositRefundedOnce AdoptedIsSettled
PROPERTIES BallotsAreFinal MandateOfMembers
CHECK_DEADLOCK FALSE
