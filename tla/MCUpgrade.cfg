SPECIFICATION Spec
CONSTANTS
  a = a
  b = b
  c = c
  p = p
  q = q
  r = r
  HolderIds = {a}
  Positions = {p}
  NoHolder = NoHolder
  Nobody = Nobody
  NoProposal = NoProposal
  KeepAddress = KeepAddress
  KeepParams = KeepParams
  Stakes = {1}
  GenesisSkip = 2
  GenesisAddress = "v0"
  GenesisParams <- V0Params
  GenesisReserve = 4
  GenesisWallet = 3
  SlotLength = 1
  AgreementLength = 2
  Proposals <- UpgradePath
  MaxTime = 10
  MaxBlocks = 6
INVARIANT SlotHasBegun
INVARIANT ParamsWereAgreed
INVARIANT UpgradePathIsFollowed
PROPERTY NextBlockAwaitsSlot
PROPERTY NextBlockAwaitsInterval
PROPERTY MismatchIsForever
CHECK_DEADLOCK FALSE
