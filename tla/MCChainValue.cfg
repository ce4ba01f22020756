SPECIFICATION ValueSpec
CONSTANTS
  ada = ada
  tok = tok
  x = x
  y = y
  Policies = {ada, tok}
  Names = {x, y}
  Ada = ada
  AdaName = x
  Coin = tok
  CoinName = x
  Nothing = Nothing
  Genesis <- GenesisValue
  Fee = 1
  Fraction <- Half
  Payouts <- AgreedPayouts
  Treasuries <- AgreedTreasuries
  MaxAmount = 5
INVARIANT ValueTypeOK
INVARIANT AccountIsExact
PROPERTY OnlyUpgradesLowerAda
CHECK_DEADLOCK FALSE
