SPECIFICATION Spec
CONSTANTS
  Procs = {p1, p2}
  Kinds = {"s3", "dir", "archive"}
  Parts = 2
  MaxAttempts = 3
  MaxCrashes = 2
INVARIANTS
  TypeOK
  WholeOrAbsent
  ReturnedIsStored
  NotFoundIsReal
PROPERTY
  CallReturns
