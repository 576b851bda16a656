CONSTANTS
  Req = {r1, r2}
  Silent = {r2}
  HeartBeat = HeartBeat
  Garbage = Garbage
  Extra = {HeartBeat}
SPECIFICATION FairSpec
INVARIANTS
  NothingToSendAsleep
  AnsweredOnce
PROPERTIES
  RequestsAnswered
  SilentPeerIsDropped
  RecvAndTimerEnd
CHECK_DEADLOCK FALSE
