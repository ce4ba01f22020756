SPECIFICATION Spec
CONSTANTS
  HolderIds = {a, b}
  Keys = {k1, k2, k3}
  NoOutput = NoOutput
  NoHolder = NoHolder
  Nobody = Nobody
  Stakes = {1, 2}
  Made <- Outcomes
  MaxOthers = 1
  RegisterFee = 1
  BlockFraction <- Half
  MaxHolders = 2
  GenesisSkip = 2
  GenesisReserve = 4
  GenesisWallet = 5
  SlotLength = 1
  MaxTime = 2
  MaxBlocks = 1
INVARIANT TypeOK
INVARIANT TokensArePositions
INVARIANT ToolsAreAccepted
PROPERTY ImplementsChain
SYMMETRY NameSymmetry
CHECK_DEADLOCK FALSE
