SPECIFICATION Spec
CONSTANTS
  Config <- MCConfig
  MaxSteps = 2
  SaveEvery = 1
  Lifetime = 1
  Width = 2
  Reward <- MCTwoRewards
  NoConfig = NoConfig
  MaxInvocations = 2
INVARIANT SignalIsReal
