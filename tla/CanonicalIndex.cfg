CONSTANTS
  Requests = {r1, r2, r3}
  MaxSlot = 4
  ChunkSize = 2
  Blocks <- MCBlocks
  Windows <- MCWindows
  MaxFailures = 1
SPECIFICATION SliceSpec
INVARIANTS
  TypeOK
  NoDoubleLoad
  LoadedSeparated
  SnapshotExact
  WaiterHasLoader
  SlicesRepresentSets
  ScanAgrees
PROPERTY
  ImplementsReads
