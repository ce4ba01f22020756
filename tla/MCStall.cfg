SPECIFICATION Spec
CONSTANTS
  a = a
  b = b
  c = c
  p = p
  q = q
  r = r
  HolderIds = {a, b, c}
  Positions = {p, q, r}
  NoHolder = NoHolder
  Nobody = Nobody
  NoProposal = NoProposal
  KeepAddress = KeepAddress
  KeepParams = KeepParams
  Stakes = {0, 1}
  GenesisSkip = 6
  GenesisAddress = "v0"
  GenesisParams <- V0Params
  GenesisReserve = 3
  GenesisWallet = 2
  SlotLength = 2
  AgreementLength = 1
  Proposals <- Restriction
  MaxTime = 5
  MaxBlocks = 2
INVARIANT SomebodyCanLead
CHECK_DEADLOCK FALSE
