SPECIFICATION FairSpec
CONSTANTS
  None = None
  Names = 2
  TooLong = {1}
  Whole = 3
  StableScans = 2
  MinAge = 1
  Overwrite = FALSE
  MaxUploads = 1
  MaxCrashes = 1
CHECK_DEADLOCK FALSE
PROPERTY LineKeepsMoving
