SPECIFICATION Spec
CONSTANTS
  NumRows = 5
  DbOf <- MCDbOf
  QuestionOf <- MCQuestionOf
  Padded <- MCPadded
  Usable <- MCUsable
  MaxTrain = 4
  Shuffle <- MCShuffle
  Seed = {1}
  FormalSeed = 2
  ValidationSize = {2}
  TuningSize = 2
  FormalSize = 2
  MaxCommands = 3
CHECK_DEADLOCK FALSE
INVARIANT TrainingNeverSeesValidation
