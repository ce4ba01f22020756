SPECIFICATION FairSpec
CONSTANTS
  p1 = p1
  p2 = p2
  Pools = {p1, p2}
  Refs = {r1, r2}
  NoRequest = NoRequest
  Closed = Closed
  NoView = NoView
  NoTx = NoTx
  InitialLiquidity = 2
  GenesisPools <- TwoPools
  GenesisCoin = 1
  MinAmounts <- AnyMinimum
  MaxAmount = 2
  MaxReward = 1
  MaxBlocks = 1
  MaxFaults = 1
INVARIANT TypeOK
INVARIANT RegistryMatchesPools
PROPERTY PoolsFollowTheirScript
PROPERTY OthersLoseAtMostOneToken
PROPERTY FillableIsFilled
CHECK_DEADLOCK FALSE
