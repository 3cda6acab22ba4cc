SPECIFICATION Spec
CONSTANTS
  Example <- MCExample
  Database <- MCDatabase
  GoldOf <- MCGoldOf
  Completion <- MCCompletion
  RequirePlan = FALSE
  NoProcess = NoProcess
  NoTrace = NoTrace
INVARIANTS TypeOK CorrectnessDominates RewardReproducible GoldIsFresh
