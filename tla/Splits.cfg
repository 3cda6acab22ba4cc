SPECIFICATION Spec
CONSTANTS
  NumRows = 5
  DbOf <- MCDbOf
  QuestionOf <- MCQuestionOf
  Padded <- MCPadded
  Usable <- MCUsable
  MaxTrain = 4
  Shuffle <- MCShuffle
  Seed <- MCSeed
  FormalSeed = 2
  ValidationSize <- MCSize
  TuningSize = 2
  FormalSize = 2
  MaxCommands = 5
CHECK_DEADLOCK FALSE
INVARIANTS TypeOK GateKeepsSelection LockedSplits DrawIsStratified SharedQuestionsReported
