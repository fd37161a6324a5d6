SPECIFICATION CounterSpec
CONSTANTS
  COUNTER_MARGIN = 2
  MaxPerPeriod = 2
  Coordinator = FALSE
  MaxCounter = 7
INVARIANTS ReuseOnlyBeforeFirstSave
PROPERTIES FlashNeverRewinds
CHECK_DEADLOCK FALSE
