CONSTANTS
  DeviceID = {1, 2, 3, 4}
  Byte = 10
  Base = 3
  LeftoverByte = {0}
  LeftoverDigit = {}
SPECIFICATION Spec
INVARIANTS TypeOK  
 
