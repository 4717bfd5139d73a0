SPECIFICATION Spec
CONSTANTS
  Workers = {1, 2}
  WarmupSlot <- MCWarmupSlot
  EndSlot <- MCEndSlot
  MaxSlot = 5
  Orphans = {101, 102}
  Modes = {"next-non-missed", "strict", "greedy", "first-seen"}
  LookaheadCap = 2
  IndexPageSize = 1
  MaxOrphanWalk = 2
  MaxArchiveOrphansPerSlot = 1
INVARIANTS
  ForksImported
  OnlyDetachedSkipped
  CanonicalAttaches
  WarmCoversByRange
  PlanMatchesSlots
  PlanOrdered
CHECK_DEADLOCK FALSE
