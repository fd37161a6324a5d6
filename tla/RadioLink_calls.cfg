CONSTANTS
  Calls <- MCCalls
  StartChannel = 11
  ResetConfig <- MCResetConfig
  MaxNesting = 2
  MaxCalls = 2
  MaxInbound = 2
  MaxRestarts = 1
  Backoffs = 1
  FrameUnits = 3
  FlushUnits = 3
SPECIFICATION Spec
INVARIANTS
  OwnResponse
  CacheAgrees
  AckedMeansReceived
  BeginFindsModule
CHECK_DEADLOCK FALSE
