SPECIFICATION Spec
CONSTANTS
  MaxHolders = 3
  MaxWeight = 3
  GenesisSkip = 4
INVARIANT TypeOK
INVARIANT LoopComputesSlotLeader
INVARIANT LeaderIsCandidate
INVARIANT ShareWithinOneOfStake
CHECK_DEADLOCK FALSE
