SPECIFICATION Spec
CONSTANTS
  Hub = Hub
  Peers = {a, b}
  NoKey = NoKey
  NoEntry = NoEntry
  ReplaySlots = 2
  CountersRestart = FALSE
  MaxGeneration = 1
  MaxCounter = 2
  MaxQueue = 2
  MaxRestarts = 1
SYMMETRY PeerSymmetry
INVARIANTS UniqueIdentity RepeatOnlyAfterEviction NoLockout OpensAcrossSwitch
CHECK_DEADLOCK FALSE
