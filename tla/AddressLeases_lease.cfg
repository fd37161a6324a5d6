SPECIFICATION Spec
CONSTANTS
  Devices = {B, C}
  Routers = {B}
  PoolSize = 2
  TableSize = 2
  None = None
  MaxRestarts = 1
INVARIANTS ConflictOnlyIfExcused
PROPERTIES SameAddressAfterOutage
