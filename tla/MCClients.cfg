CONSTANTS
  Msg = {"x", "y"}
  MaxMsg = 3
  Endpoint = {1, 2, 3}
  MaxClient = 2
  MaxMade = 4
  MaxMake = 2
  MaxSession = 1
  Thread = {1, 2, 3}
  MaxYield = 2
  InstNum = 4
  Time = {1, 2, 3}
  MaxGuid = 6
  Value = {1, 2, 3}
  MaxSize = 5
  Item = {1, 2}
  BufSize = 4
SPECIFICATION MCSpec
INVARIANTS
  ClientsHold
  ThreadToolsHold
  ContainersHold
PROPERTIES
  ClientsEnd
CHECK_DEADLOCK FALSE
