SPECIFICATION Spec
CONSTANTS
  InitialLiquidity = 4
  GuaranteedFraction <- TwoThirds
  MaxStake = 16
  MaxTokens = 20
  MaxRewarded = 6
INVARIANT TypeOK
INVARIANT InitialTokensAreLocked
INVARIANT RewardsAreShared
PROPERTY StakeNeverRunsOut
PROPERTY JoiningTakesNothing
PROPERTY ShareLosesAtMostOneToken
CHECK_DEADLOCK FALSE
