SPECIFICATION Spec
CONSTANTS
  p1 = p1
  p2 = p2
  Pools = {p1}
  Refs = {r1, r2}
  NoRequest = NoRequest
  Closed = Closed
  NoView = NoView
  NoTx = NoTx
  InitialLiquidity = 2
  GenesisPools <- RichPool
  GenesisCoin = 1
  MinAmounts <- AnyMinimum
  MaxAmount = 2
  MaxReward = 0
  MaxBlocks = 1
  MaxFaults = 1
PROPERTY MembersGetTheirShare
CHECK_DEADLOCK FALSE
