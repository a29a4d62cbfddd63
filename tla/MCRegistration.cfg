SPECIFICATION Spec
CONSTANTS
  a = a
  edge = edge
  advance = advance
  Account = {a}
  MinerType = {edge, advance}
  MinDeposit <- MCMinDeposit
  NeededTypes = {advance}
  GenesisNodes = {}
  GenesisType = edge
  Rates = {0, 1}
  Amounts = {0, 1, 2}
  Wealth = 3
  RedeemInterval = 2
  RateInterval = 2
  LockIncrement = 2
  LockMax = 3
  MaxPunish = 2
  MaxTime = 7
INVARIANTS TypeOK DepositsBacked DepositAboveMinimum
PROPERTIES LockServed RefundWaits RateHeld
CHECK_DEADLOCK FALSE
