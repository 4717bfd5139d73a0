CONSTANTS
  SlotsPerEpoch = 2
  MaxSlot = 40
  StartEpoch = 3
  EndEpoch = 7
  ChunkSize = 3
  Parallel = 2
  WarmupEpochs = 0
  LookaheadCap = 3
  MissedSlots = {}
  FallbackEpochs = 2
  SlotsPerEra = 4
  PreDownloadLookaheadSlots = 1
  MaxFaults = 0
  MaxKills = 0
  CHUNK_RETRIES = 2
  MaxInvocations = 2
SPECIFICATION SafeSpec
INVARIANT ExitZeroComplete
\* run.sh ends.
CHECK_DEADLOCK FALSE
