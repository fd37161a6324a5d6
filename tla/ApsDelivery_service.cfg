SPECIFICATION Spec
CONSTANTS
  TableSize = 2
  MaxRetries = 2
  CounterMod = 3
  MaxOutstanding = 1
  NoCounter = NoCounter
  MaxFrames = 3
  MaxInFlight = 3
  MaxRestarts = 0
PROPERTIES ServiceSpec
CHECK_DEADLOCK FALSE
