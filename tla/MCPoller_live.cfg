SPECIFICATION LiveSpec

CONSTANTS
  NChains = 2
  MaxHeight <- LiveHeights
  History <- LiveHistories
  NConfigs = 1
  Root <- OneRoot
  Subject <- MCSubject
  Address <- MCAddress
  StartBlock = 0
  ReorgDepth = 1
  Confirmations = 2
  BatchSpan = 1
  MaxFaults = 0
  LaggingLogs = TRUE
  DropMayFail = FALSE
  SourceMayFail = FALSE
  WriteMayFail = FALSE
  Reverts = FALSE
  OldStores = {}

INVARIANTS
  TallyExact

PROPERTIES
  CatchesUp
