CONSTANTS
  Capacity = 3
  DeviceID <- MCDeviceID
  Value = {v1}
  Keep = Keep
  Readers = {r1}
  SqlMayFail = FALSE
  UartMayFail = FALSE
SPECIFICATION FairSpec
PROPERTIES FullQueueIsDrained
