SPECIFICATION FairSpec
CONSTANTS
  Config <- MCConfig
  MaxSteps = 5
  SaveEvery = 2
  Lifetime = 2
  Width = 2
  Reward <- MCOneReward
  NoConfig = NoConfig
  MaxInvocations = 3
INVARIANTS TypeOK OneConfigPerDirectory StepsAreLogged PassMeansTrained
PROPERTIES CheckpointAdvances RunEnds
