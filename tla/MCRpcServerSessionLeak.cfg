CONSTANTS
  Req = {r1}
  Silent = {}
  HeartBeat = HeartBeat
  Garbage = Garbage
  Extra = {HeartBeat, Garbage}
SPECIFICATION FairSpec
PROPERTIES
  AllCoroutinesEnd
CHECK_DEADLOCK FALSE
