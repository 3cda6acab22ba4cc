SPECIFICATION SftSpec
CONSTANTS
  Example = {"e1", "e2", "held"}
  Train = {"e1", "e2"}
  Sources <- MCOneSource
  Arm = {"distilled", "gold"}
  Distilled = {"distilled"}
  Strict = {}
  Paired = {"distilled", "gold"}
  Resuming = {}
  Prompt = {"v1", "v2"}
  Record <- MCRecord
  MaxRecords = 2
  MaxRuns = 3
CHECK_DEADLOCK FALSE
INVARIANT ArmsShareExamples
