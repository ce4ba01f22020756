SPECIFICATION Spec
CONSTANTS
  a = a
  b = b
  c = c
  p = p
  q = q
  r = r
  HolderIds = {a, b, c}
  Positions = {p, q, r}
  NoHolder = NoHolder
  Nobody = Nobody
  NoProposal = NoProposal
  KeepAddress = KeepAddress
  KeepParams = KeepParams
  Stakes = {0, 1}
  GenesisSkip = 2
  GenesisAddress = "v0"
  GenesisParams <- V0Params
  GenesisReserve = 3
  GenesisWallet = 2
  SlotLength = 2
  AgreementLength = 1
  Proposals <- Restriction
  MaxTime = 7
  MaxBlocks = 3
SYMMETRY SymmetryRegistry
INVARIANT TypeOK
INVARIANT RegistryMatchesHolders
INVARIANT SkipWithinRegistry
PROPERTY StallIsForever
PROPERTY ImplementsBallot
CHECK_DEADLOCK FALSE
