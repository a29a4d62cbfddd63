SPECIFICATION Spec
CONSTANTS
  alice = alice
  bob = bob
  carol = carol
  dave = dave
  erin = erin
  frank = frank
  fee = fee
  wl = wl
  tcc = tcc
  ex = ex
  Address <- SixAddress
  Proposer <- MCProposer
  UserAddress <- MCUserAddress
  Param <- MCParam
  BwParam <- MCBwParam
  TccMember = tcc
  ExpireTime = ex
  GenesisParams <- SixGenesis
  Requests <- SixRequests
  Deposits = {0, 1}
  MinDeposit = 1
  Durations = {1}
  MaxId = 1
  MaxTime = 3
INVARIANTS NothingDecidedStaysOpen
CHECK_DEADLOCK FALSE
