SPECIFICATION Spec
CONSTANTS
  TableSize = 2
  MaxRetries = 1
  CounterMod = 2
  MaxOutstanding = 3
  NoCounter = NoCounter
  MaxFrames = 3
  MaxInFlight = 2
  MaxRestarts = 2
INVARIANTS RepeatOnlyWhenOverlapping FalseDeliveryOnlyByCounterReuse PendingAccounted
CHECK_DEADLOCK FALSE
