SPECIFICATION Spec
CONSTANTS
  Config <- MCConfig
  Adapted <- MCAdapted
  MergedOf <- MCMergedOf
  PlaceOf <- MCPlaceOf
  SmokePlace = "artifacts/smoke/gptq"
  Calibration <- MCCalibration
  KnownSplit = {"train", "calibration", "dev", "test"}
  AllowedSplit = {"train", "calibration"}
  MaxSamples = 1
  MaxRuns = 2
  MaxSaves = 2
CHECK_DEADLOCK FALSE
INVARIANTS TypeOK PassIsBacked MadeOfItsAdapter CalibrationClean
