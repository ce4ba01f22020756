SPECIFICATION Spec
CONSTANTS
  AgreementLength = 3
  Fees = {0}
  GenesisFee = 0
  NewFee = 0
  KeepAddress = KeepAddress
  NoMessage = NoMessage
  GenesisMessage = GenesisMessage
  NoDatum = NoDatum
  NoState = NoState
  MaxBlocks = 7
  MaxExtra = 1
INVARIANT TypeOK
INVARIANT ToolSubmitsInTime
PROPERTY ChangesWereAgreed
CHECK_DEADLOCK FALSE
