SPECIFICATION SftSpec
CONSTANTS
  Example = {"e1", "e2", "held"}
  Train = {"e1", "e2"}
  Sources <- MCSources
  Arm = {"distilled", "gold"}
  Distilled = {"distilled"}
  Strict = {}
  Paired = {"distilled", "gold"}
  Resuming = {"distilled", "gold"}
  Prompt = {"v1", "v2"}
  Record <- MCRecord
  MaxRecords = 2
  MaxRuns = 3
CHECK_DEADLOCK FALSE
INVARIANTS SftTypeOK OnlyItsTargets PairedGoldIsSolved PassMeansTrained
