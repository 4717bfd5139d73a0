CONSTANTS
  d1 = d1
  Procs = {p1}
  Dirs = {d1}
  DirOf <- MCOneDir
  Eras = {1}
  RangeOf <- MCOneRange
  Records = 2
  UseS3 = FALSE
  MaxRetries = 2
  MaxCrashes = 1
SPECIFICATION SafeSpec
INVARIANT MissedIsMissed
CHECK_DEADLOCK FALSE
