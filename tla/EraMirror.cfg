CONSTANTS
  d1 = d1
  d2 = d2
  Procs = {p1}
  Dirs = {d1, d2}
  DirOf <- MCDirOf
  Eras = {1, 2}
  RangeOf <- MCRangeOf
  Records = 1
  UseS3 = TRUE
  MaxRetries = 2
  MaxCrashes = 1
  Workers = {m1, m2}
  MirrorDir = d2
SPECIFICATION MirrorSpec
INVARIANTS
  MirrorTypeOK
  ReadyHasFiles
  S3Whole
  TruncationNeedsInterruption
  MirrorComplete
PROPERTIES
  DownloadAdvances
  MirrorEnds
\* Once every process has its files nothing has to happen any more.
CHECK_DEADLOCK FALSE
