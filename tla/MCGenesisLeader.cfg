SPECIFICATION Spec
CONSTANTS
  MaxHolders = 3
  MaxWeight = 3
  GenesisSkip = 4
INVARIANT GenesisLeaderIsSampled
CHECK_DEADLOCK FALSE
