CONSTANTS
  SlotsPerEpoch = 2
  MaxSlot = 40
  StartEpoch = 3
  EndEpoch = 7
  ChunkSize = 3
  Parallel = 2
  WarmupEpochs = 1
  LookaheadCap = 3
  MissedSlots = {4}
  FallbackEpochs = 2
  SlotsPerEra = 4
  PreDownloadLookaheadSlots = 1
  MaxFaults = 2
  MaxKills = 2
  CHUNK_RETRIES = 2
  MaxInvocations = 3
SPECIFICATION SafeSpec
INVARIANTS
  OutputExact
  OutputFresh
  ExitZeroComplete
  SuccessIsWhole
  EraCovered
PROPERTY
  CompletePersists
\* run.sh ends.
CHECK_DEADLOCK FALSE
