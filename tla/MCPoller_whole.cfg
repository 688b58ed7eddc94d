SPECIFICATION Spec

CONSTANTS
  NChains = 2
  MaxHeight <- BothHeights
  History <- BothHistories
  NConfigs = 2
  Root <- TwoRoots
  Subject <- MCSubject
  Address <- MCAddress
  StartBlock = 0
  ReorgDepth = 1
  Confirmations = 2
  BatchSpan = 1
  MaxFaults = 2
  LaggingLogs = FALSE
  DropMayFail = FALSE
  SourceMayFail = TRUE
  WriteMayFail = TRUE
  Reverts = FALSE
  OldStores <- Older

INVARIANTS
  TypeOK
  IndexedWhole
  BookMatchesSource
  TallyCovers
  SnapshotNotBehind

PROPERTIES
  RewindOnlyAfterRelaunch
