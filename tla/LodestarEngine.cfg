SPECIFICATION Spec
CONSTANTS
  WarmupStartSlot = 1
  StartSlot = 3
  EndSlot = 5
  Orphans = {101, 102}
  SlotsPerEpoch = 2
  RecentStateCacheSlots = 1
  CheckpointCacheEpochs = 1
  MaxFaults = 2
INVARIANTS
  StatesExact
  CacheMatchesForkChoice
  NothingLost
  FailsOnlyOnFaults
CHECK_DEADLOCK FALSE
