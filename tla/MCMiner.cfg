SPECIFICATION FairSpec
CONSTANTS
  Secrets = {s1, s2, s3, s4}
  ListLength = 1
  SlotLength = 3
  Interval = 2
  Width = 3
  Retry = 1
  CommitTime = 4
  StepTime = 1
  MaxLag = 1
  Rivals = TRUE
  MaxFaults = 1
INVARIANT TypeOK
INVARIANT SecretsAreOnDisk
PROPERTY KeepsMining
