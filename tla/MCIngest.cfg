SPECIFICATION FairSpec
CONSTANTS
  Capacity = 3
  DeviceID <- MCDeviceID
  Value = {v1}
  Keep = Keep
  Readers = {r1}
  SqlMayFail = TRUE
  UartMayFail = TRUE
INVARIANTS TypeOK LockDiscipline
PROPERTIES ImplementsStream RowStableUnderReaders AsleepNeverFills WakeupDrains LoraReturns
